---- MODULE Spec2Model ----
(***************************************************************************)
(* Model of the ElementScraper of jdm-timbertech-scraper.                  *)
(*                                                                         *)
(*   Spec       the multi-page crawl controller, scrapeSitemap             *)
(*              (src/.github/workflows/publish-timbertech.yml:1459-1661)   *)
(*   SpecScan   one page scan, findElementVariations                       *)
(*              (src/src/scraper.js:185-364)                               *)
(*   SpecFilter the class-prefix filter of a scan, applied to every class  *)
(*              string and prefix of a bounded set                         *)
(*              (src/src/scraper.js:326-349)                               *)
(*                                                                         *)
(* JavaScript strings are modelled as sequences of one-character strings,  *)
(* so that includes(), split() and template-literal concatenation are      *)
(* computed and not assumed.                                               *)
(***************************************************************************)
EXTENDS Integers, Sequences, FiniteSets, TLC

(***************************************************************************)
(* Bounds of the model.                                                    *)
(***************************************************************************)
\* largest maxUrls option a caller passes
MaxUrlsCap == 4
\* largest maxDepth option a caller passes
MaxDepthCap == 3
\* longest manualUrls list / sitemap a caller supplies
MaxSeeds == 2
\* most distinct links one page.evaluate() of the link discoverer returns
MaxLinks == 2
\* most variations findElementVariations finds on one page of a crawl
MaxVarsPerPage == 1
\* most elements the selector matches on a scanned page
MaxElems == 3
\* longest class attribute of the one-element pages scanned
MaxClassLen == 5
\* longest variationClassPrefix of the one-element pages scanned
MaxPrefixLen == 2
\* anchors on a page with several links
MaxAnchors == 2
\* patterns in an include or exclude list given to the link discoverer
MaxPatterns == 1
\* variations of a screenshot pass in which any capture may fail
MaxShots == 3

(***************************************************************************)
(* String helpers (String.prototype.includes on character sequences).      *)
(***************************************************************************)
\* s.includes(p)
Includes(s, p) ==
    \E i \in 1..(Len(s) - Len(p) + 1) : SubSeq(s, i, i + Len(p) - 1) = p

\* arr.slice(0, n) for n >= 0 and, as JavaScript does, for n < 0 (all but the last -n)
Slice0(s, n) ==
    IF n >= 0 THEN SubSeq(s, 1, IF n < Len(s) THEN n ELSE Len(s))
    ELSE SubSeq(s, 1, IF Len(s) + n > 0 THEN Len(s) + n ELSE 0)

\* the elements of a sequence
Range(s) == { s[i] : i \in 1..Len(s) }

\* sequences over S of length at most n
SeqUpTo(S, n) == UNION { [1..k -> S] : k \in 0..n }

\* duplicate-free sequences over S of length at most n
DistinctSeqUpTo(S, n) ==
    { s \in SeqUpTo(S, n) : \A i, j \in 1..Len(s) : i # j => s[i] # s[j] }

(***************************************************************************)
(* The site that is crawled: page URLs (the part after the host, as        *)
(* characters) and the include/exclude pattern lists a caller passes.      *)
(***************************************************************************)
Urls == { <<"a">>, <<"b">>, <<"a", "b">> }

IncludeOptions == { << >>, << <<"a">> >> }
ExcludeOptions == { << >>, << <<"b">> >> }

\* delayBetweenPages: 0 (no pacing) or the default
DelayOptions == { 0, 2000 }

NoError == [kind |-> "none", url |-> << >>]

\* the calls made on one instance, one after the other
MaxCalls == 2

VARIABLES
    \* ---- ElementScraper instance fields
    browser,        \* this.browser: "null", "open" or "closed" (the field keeps a closed handle)
    variations,     \* this.variations
    currentUrl,     \* this.currentUrl
    \* ---- scrapeSitemap: parameters and locals
    options,        \* the destructured options of the call
    urls,           \* the seed list
    sitemapUrls,    \* fetchSitemapUrls: its local `urls`, the parsed sitemap
    allVariations,
    failedUrls,
    visitedUrls,
    urlsToProcess,
    processedCount,
    url,            \* the URL of the current loop iteration
    newLinks,       \* what discoverSameDomainLinks returned in this iteration
    pc,             \* position of the async function
    error,          \* the error travelling to the caller, NoError if none
    result,         \* settled promise: "pending", a returned record, or a rejection
    \* ---- observation of the collaborators (history, not read by the code)
    trace,          \* the collaborator calls made so far, in order
    enqueued,       \* every URL put into urlsToProcess so far, in order
    \* ---- findElementVariations: parameters and locals
    elements,       \* what page.locator(selector).all() returned
    variationClassPrefix,
    elemIndex,      \* the loop index i
    scanVariations, \* the local `variations`
    processedElements,
    scanPc,         \* "idle", "loop" or "done"
    outcomes,       \* history: what became of each element enumerated so far
    \* ---- discoverSameDomainLinks: the page, the parameters and the locals
    anchors,        \* the href attributes of document.querySelectorAll("a[href]")
    locationHref,   \* window.location.href
    discoverArgs,   \* the arguments visitedUrls, includePatterns, excludePatterns
    anchorIndex,    \* position of the forEach
    discoveredLinks,
    pageLinks,      \* the local `links`: what page.evaluate returned
    candidateLinks, \* the local `newLinks`: links not visited
    filteredLinks,  \* the value returned
    discoverPc,     \* "idle", "anchors", "filter", "done" or "failed"
    \* ---- takeScreenshots: locals and the element being captured
    screenshotCount,
    shotIndex,      \* the loop index i
    capturePc,      \* position inside the iteration, "idle" or "done"
    finalBoundingBox, \* element.boundingBox() after scrolling, NullBox for null
    clipRegion,     \* the region computed from it, NullRegion where none is
    tall,           \* finalBoundingBox.height > 1000
    plain,          \* the page is one where every element is captured at once
    attempts,       \* history: the capture calls made in this pass and how they ended
    shotOutcomes    \* history: what became of each variation of the pass

crawlVars == << browser, variations, currentUrl, options, urls, sitemapUrls, allVariations,
                failedUrls, visitedUrls, urlsToProcess, processedCount, url,
                newLinks, pc, error, result, trace, enqueued >>

\* the crawl's variables but this.variations, which a scan assigns
crawlLocals == << browser, currentUrl, options, urls, sitemapUrls, allVariations, failedUrls,
                 visitedUrls, urlsToProcess, processedCount, url, newLinks, pc,
                 error, result, trace, enqueued >>

scanVars == << elements, variationClassPrefix, elemIndex, scanVariations,
               processedElements, scanPc, outcomes >>

linkVars == << anchors, locationHref, discoverArgs, anchorIndex, discoveredLinks,
               pageLinks, candidateLinks, filteredLinks, discoverPc >>

captureVars == << screenshotCount, shotIndex, capturePc, finalBoundingBox, clipRegion,
                  tall, plain, attempts,
                  shotOutcomes >>

vars == << crawlVars, scanVars, linkVars, captureVars >>

\* a collaborator call: what was called, for which page, and the page count then
Event(ev, u) == [ev |-> ev, url |-> u, n |-> processedCount]

NoOptions == [maxUrls |-> 0, maxDepth |-> 0, followLinks |-> FALSE,
              continueOnError |-> FALSE, delayBetweenPages |-> 0,
              includePatterns |-> << >>, excludePatterns |-> << >>,
              manualUrls |-> << >>, useManual |-> FALSE]

\* new ElementScraper()
InitCrawl ==
    /\ browser = "null"
    /\ variations = << >>
    /\ currentUrl = << >>
    /\ options = NoOptions
    /\ urls = << >>
    /\ sitemapUrls = << >>
    /\ allVariations = << >>
    /\ failedUrls = << >>
    /\ visitedUrls = {}
    /\ urlsToProcess = << >>
    /\ processedCount = 0
    /\ url = << >>
    /\ newLinks = << >>
    /\ pc = "idle"
    /\ error = NoError
    /\ result = [state |-> "pending"]
    /\ trace = << >>
    /\ enqueued = << >>


(***************************************************************************)
(* findElementVariations (src/src/scraper.js:185-364).                     *)
(*                                                                         *)
(* An element is what the scan reads of it: its tag name, its raw class    *)
(* attribute, its bounding box (NoBox when boundingBox() returns null) and *)
(* whether reading it throws (a detached element).  The selector strings,  *)
(* the text summary and the anchor info of a Variation are not modelled:   *)
(* they take no part in deduplication, filtering or ordering.              *)
(***************************************************************************)
NoBox == [present |-> FALSE, x |-> 0, y |-> 0]
Box(x, y) == [present |-> TRUE, x |-> x, y |-> y]

\* the multi-element pages: elements built from these parts, or detached
PageTags == { <<"d", "i", "v">> }
PageClasses == { <<"a">>, <<"a", "-">> }
PageBoxes == { NoBox, Box(0, 0), Box(1, 0), Box(-1, 0) }
PagePrefixes == { << >>, <<"a", "-">> }

Detached == [tag |-> <<"d", "i", "v">>, cls |-> << >>, box |-> NoBox, throws |-> TRUE]

PageElements ==
    { [tag |-> t, cls |-> c, box |-> b, throws |-> FALSE] :
        t \in PageTags, c \in PageClasses, b \in PageBoxes } \cup { Detached }

\* the one-element pages: any class attribute and any prefix over these characters
ClassAlphabet == { "a", "_", " ", "\t" }
PrefixAlphabet == { "a", "_" }

OneElementPages ==
    { << [tag |-> <<"d", "i", "v">>, cls |-> c, box |-> NoBox, throws |-> FALSE] >> :
        c \in SeqUpTo(ClassAlphabet, MaxClassLen) }

\* decimal digits of a natural number
Digit(n) == CASE n = 0 -> "0" [] n = 1 -> "1" [] n = 2 -> "2" [] n = 3 -> "3"
              [] n = 4 -> "4" [] n = 5 -> "5" [] n = 6 -> "6" [] n = 7 -> "7"
              [] n = 8 -> "8" [] n = 9 -> "9"

RECURSIVE NatStr(_)
NatStr(n) == IF n < 10 THEN << Digit(n) >> ELSE NatStr(n \div 10) \o << Digit(n % 10) >>

\* `${n}` for an integer
NumStr(n) == IF n < 0 THEN <<"-">> \o NatStr(-n) ELSE NatStr(n)

\* boundingBox?.x || 0 and boundingBox?.y || 0
KeyX(box) == IF box.present /\ box.x # 0 THEN box.x ELSE 0
KeyY(box) == IF box.present /\ box.y # 0 THEN box.y ELSE 0

\* `${tagName}-${classNames}-${boundingBox?.x || 0}-${boundingBox?.y || 0}`
ElementId(e) ==
    e.tag \o <<"-">> \o e.cls \o <<"-">> \o NumStr(KeyX(e.box)) \o <<"-">> \o NumStr(KeyY(e.box))

\* s.split(" ")
RECURSIVE Split(_)
Split(s) ==
    IF \A k \in 1..Len(s) : s[k] # " " THEN << s >>
    ELSE LET k == CHOOSE k \in 1..Len(s) :
                      s[k] = " " /\ \A m \in 1..(k - 1) : s[m] # " "
         IN  << SubSeq(s, 1, k - 1) >> \o Split(SubSeq(s, k + 1, Len(s)))

Whitespace == { " ", "\t" }

\* cls.trim() is a non-empty string
TrimTruthy(cls) == \E k \in 1..Len(cls) : cls[k] \notin Whitespace

\* classNames.split(" ").filter((cls) => cls.trim())
ClassNames(raw) == SelectSeq(Split(raw), TrimTruthy)

\* the filter that lets an element with a prefixed "__" class through when it
\* also has a clean prefixed class
PassesFilterAnyClean(classNames, prefix) ==
    IF prefix # << >>
    THEN \E k \in 1..Len(classNames) :
            Includes(classNames[k], prefix) /\ ~Includes(classNames[k], <<"_", "_">>)
    ELSE TRUE

\* the filter without its "__" test
PassesFilterPrefixOnly(classNames, prefix) ==
    IF prefix # << >>
    THEN \E k \in 1..Len(classNames) : Includes(classNames[k], prefix)
    ELSE TRUE

\* lines 333-349: TRUE when the element is not skipped by the prefix filter
PassesFilter(classNames, prefix) ==
    IF prefix # << >>
    THEN LET hasTargetClass ==
                 \E k \in 1..Len(classNames) : Includes(classNames[k], prefix)
             hasTargetClassWithDoubleUnderscore ==
                 \E k \in 1..Len(classNames) :
                     Includes(classNames[k], prefix) /\ Includes(classNames[k], <<"_", "_">>)
         IN  ~(~hasTargetClass \/ hasTargetClassWithDoubleUnderscore)
    ELSE TRUE

\* the variation object of lines 318-331
Variation(e, index) ==
    [index |-> index, tagName |-> e.tag, classNames |-> ClassNames(e.cls),
     boundingBox |-> e.box, screenshotPath |-> "null"]

\* processedElements.add(elementId) left out
NotMarked(processed, id) == processed

\* processedElements.add(elementId)
MarkProcessed(processed, id) == processed \cup { id }

\* variations.unshift(variation)
Unshift(list, v) == << v >> \o list

\* variations.push(variation)
PushVariation(list, v) == Append(list, v)

\* the scan from element i on, as one computation: what findElementVariations
\* returns when `processed` holds the keys and `out` the variations so far
RECURSIVE ScanFrom(_, _, _, _, _)
ScanFrom(es, prefix, i, processed, out) ==
    IF i >= Len(es) THEN out
    ELSE IF es[i + 1].throws THEN ScanFrom(es, prefix, i + 1, processed, out)
    ELSE IF ElementId(es[i + 1]) \in processed THEN ScanFrom(es, prefix, i + 1, processed, out)
    ELSE IF ~PassesFilter(ClassNames(es[i + 1].cls), prefix)
         THEN ScanFrom(es, prefix, i + 1, processed, out)
    ELSE ScanFrom(es, prefix, i + 1, MarkProcessed(processed, ElementId(es[i + 1])),
                  PushVariation(out, Variation(es[i + 1], i)))

\* a set of keys that outlives the call
KeptSet(processed) == processed

\* const processedElements = new Set() (line 196): every call starts with no key
NewProcessedSet(processed) == {}

\* a scan that starts from the keys of the scan before it
FindWithKeptKeys(es, prefix, processed) == ScanFrom(es, prefix, 0, processed, << >>)

\* findElementVariations(selector, prefix) on a page whose selector matches es,
\* called when the keys of an earlier scan are `processed`
FindElementVariations(es, prefix, processed) ==
    ScanFrom(es, prefix, 0, NewProcessedSet(processed), << >>)

ScanInputs ==
    { [elements |-> es, prefix |-> p] :
        es \in SeqUpTo(PageElements, MaxElems), p \in PagePrefixes }
    \cup
    { [elements |-> es, prefix |-> p] :
        es \in OneElementPages, p \in SeqUpTo(PrefixAlphabet, MaxPrefixLen) }

InitScan ==
    /\ elements = << >>
    /\ variationClassPrefix = << >>
    /\ elemIndex = 0
    /\ scanVariations = << >>
    /\ processedElements = {}
    /\ scanPc = "idle"
    /\ outcomes = << >>

\* the call, up to the first loop test (lines 185-198)
findElementVariations_Call ==
    /\ scanPc = "idle"
    /\ \E inp \in ScanInputs :
        /\ elements' = inp.elements
        /\ variationClassPrefix' = inp.prefix
    /\ elemIndex' = 0
    /\ scanVariations' = << >>
    /\ processedElements' = NewProcessedSet(processedElements)
    /\ outcomes' = << >>
    /\ scanPc' = "loop"
    /\ UNCHANGED << linkVars, captureVars, crawlLocals, variations >>

\* the element of the current iteration
Element == elements[elemIndex + 1]

InLoop == scanPc = "loop" /\ elemIndex < Len(elements)

\* a catch that gives up the enumeration
CatchAborts(i) == Len(elements)

\* catch (error) { console.warn(...) }: the for loop goes on with i + 1
CatchElement(i) == i + 1

\* an await of the extraction throws: the catch logs and the loop goes on
ExtractionError ==
    /\ InLoop
    /\ Element.throws
    /\ outcomes' = Append(outcomes, "error")
    /\ elemIndex' = CatchElement(elemIndex)
    /\ UNCHANGED << linkVars, captureVars, crawlLocals, variations, elements, variationClassPrefix,
                    scanVariations, processedElements, scanPc >>

\* lines 310-314
SkipDuplicate ==
    /\ InLoop
    /\ ~Element.throws
    /\ ElementId(Element) \in processedElements
    /\ outcomes' = Append(outcomes, "duplicate")
    /\ elemIndex' = elemIndex + 1
    /\ UNCHANGED << linkVars, captureVars, crawlLocals, variations, elements, variationClassPrefix,
                    scanVariations, processedElements, scanPc >>

\* a scan that marks the element before it filters it
MarkedBeforeFilter(processed, id) == processed \cup { id }

\* the continue of line 347 comes before processedElements.add (line 352)
KeysAfterReject(processed, id) == processed

\* lines 333-349
SkipFiltered ==
    /\ InLoop
    /\ ~Element.throws
    /\ ElementId(Element) \notin processedElements
    /\ ~PassesFilter(Variation(Element, elemIndex).classNames, variationClassPrefix)
    /\ outcomes' = Append(outcomes, "filtered")
    /\ elemIndex' = elemIndex + 1
    /\ processedElements' = KeysAfterReject(processedElements, ElementId(Element))
    /\ UNCHANGED << linkVars, captureVars, crawlLocals, variations, elements, variationClassPrefix,
                    scanVariations, scanPc >>

\* lines 351-353
AcceptElement ==
    /\ InLoop
    /\ ~Element.throws
    /\ ElementId(Element) \notin processedElements
    /\ PassesFilter(Variation(Element, elemIndex).classNames, variationClassPrefix)
    /\ processedElements' = MarkProcessed(processedElements, ElementId(Element))
    /\ scanVariations' = PushVariation(scanVariations, Variation(Element, elemIndex))
    /\ outcomes' = Append(outcomes, "accepted")
    /\ elemIndex' = elemIndex + 1
    /\ UNCHANGED << linkVars, captureVars, crawlLocals, variations, elements, variationClassPrefix, scanPc >>

\* lines 359-363
findElementVariations_Return ==
    /\ scanPc = "loop"
    /\ elemIndex >= Len(elements)
    /\ variations' = scanVariations
    /\ scanPc' = "done"
    /\ UNCHANGED << linkVars, captureVars, crawlLocals, elements, variationClassPrefix, elemIndex,
                    scanVariations,
                    processedElements, outcomes >>

NextScan ==
    \/ findElementVariations_Call
    \/ ExtractionError
    \/ SkipDuplicate
    \/ SkipFiltered
    \/ AcceptElement
    \/ findElementVariations_Return

(***************************************************************************)
(* scrapeSitemap: the seed list (lines 1485-1508).                         *)
(***************************************************************************)
\* includePatterns.some((pattern) => url.includes(pattern))
SomePatternIn(patterns, u) == \E i \in 1..Len(patterns) : Includes(u, patterns[i])

\* a filter that forgets the exclude list
ApplyIncludeOnly(list, includePatterns, excludePatterns) ==
    IF Len(includePatterns) > 0
    THEN SelectSeq(list, LAMBDA u : SomePatternIn(includePatterns, u))
    ELSE list

\* the include filter followed by the exclude filter, each skipped for an empty list
ApplyPatterns(list, includePatterns, excludePatterns) ==
    LET included == IF Len(includePatterns) > 0
                    THEN SelectSeq(list, LAMBDA u : SomePatternIn(includePatterns, u))
                    ELSE list
    IN  IF Len(excludePatterns) > 0
        THEN SelectSeq(included, LAMBDA u : ~SomePatternIn(excludePatterns, u))
        ELSE included

\* a sitemap fetch that returns every URL the filters keep
FetchSitemapUrlsUnlimited(sitemap, maxUrls, includePatterns, excludePatterns) ==
    ApplyPatterns(sitemap, includePatterns, excludePatterns)

\* a sitemap fetch that cuts the list before it filters
FetchSitemapUrlsLimitFirst(sitemap, maxUrls, includePatterns, excludePatterns) ==
    ApplyPatterns(Slice0(sitemap, maxUrls), includePatterns, excludePatterns)

\* ScraperUtils.fetchSitemapUrls once the sitemap has been fetched and parsed
FetchSitemapUrls(sitemap, maxUrls, includePatterns, excludePatterns) ==
    Slice0(ApplyPatterns(sitemap, includePatterns, excludePatterns), maxUrls)

OptionSets ==
    [maxUrls : 1..MaxUrlsCap, maxDepth : 1..MaxDepthCap, followLinks : BOOLEAN,
     continueOnError : BOOLEAN, delayBetweenPages : DelayOptions,
     includePatterns : IncludeOptions, excludePatterns : ExcludeOptions,
     manualUrls : SeqUpTo(Urls, MaxSeeds), useManual : BOOLEAN]

\* an error that leaves the function without passing through the finally block
ThrowPastFinally(e) ==
    /\ error' = e
    /\ pc' = "done"

\* an error leaves the try block: the outer catch rethrows it, the finally block runs
Throw(e) ==
    /\ error' = e
    /\ pc' = "finally"

\* a crawl that goes on to initialize() whatever the seed list holds
WithSeedsUnchecked(list) ==
    /\ urls' = list
    /\ pc' = "initialize"
    /\ error' = error

\* urls.length === 0 ? throw : go on to initialize()
WithSeeds(list) ==
    /\ urls' = list
    /\ IF Len(list) = 0
       THEN Throw([kind |-> "noUrls", url |-> << >>])
       ELSE /\ pc' = "initialize"
            /\ error' = error

\* a call with options.manualUrls an array
scrapeSitemap_Manual ==
    /\ pc = "idle"
    /\ \E o \in OptionSets :
        /\ o.useManual
        /\ options' = o
        /\ WithSeeds(Slice0(o.manualUrls, o.maxUrls))
    /\ UNCHANGED << scanVars, linkVars, captureVars, sitemapUrls, enqueued, browser, variations, currentUrl, allVariations, failedUrls,
                    visitedUrls, urlsToProcess, processedCount, url, newLinks,
                    result, trace >>

\* a call without manualUrls: the sitemap is fetched first
scrapeSitemap_Sitemap ==
    /\ pc = "idle"
    /\ \E o \in OptionSets :
        /\ ~o.useManual
        /\ o.manualUrls = << >>
        /\ options' = o
    /\ pc' = "fetch"
    /\ UNCHANGED << scanVars, linkVars, captureVars, sitemapUrls, enqueued, browser, variations, currentUrl, urls, allVariations, failedUrls,
                    visitedUrls, urlsToProcess, processedCount, url, newLinks,
                    error, result, trace >>

fetchSitemapUrls_Ok ==
    /\ pc = "fetch"
    /\ \E sitemap \in SeqUpTo(Urls, MaxSeeds) :
        /\ sitemapUrls' = sitemap
        /\ WithSeeds(FetchSitemapUrls(sitemap, options.maxUrls,
                                      options.includePatterns, options.excludePatterns))
    /\ UNCHANGED << scanVars, linkVars, captureVars, enqueued, browser, variations, currentUrl, options, allVariations,
                    failedUrls, visitedUrls, urlsToProcess, processedCount, url,
                    newLinks, result, trace >>

fetchSitemapUrls_Fail ==
    /\ pc = "fetch"
    /\ Throw([kind |-> "sitemap", url |-> << >>])
    /\ UNCHANGED << scanVars, linkVars, captureVars, sitemapUrls, enqueued, browser, variations, currentUrl, options, urls, allVariations,
                    failedUrls, visitedUrls, urlsToProcess, processedCount, url,
                    newLinks, result, trace >>

(***************************************************************************)
(* initialize() (lines 121-141) and the locals of the crawl (1513-1521).   *)
(***************************************************************************)
initialize_Ok ==
    /\ pc = "initialize"
    /\ browser' = "open"
    /\ trace' = Append(trace, Event("launch", << >>))
    /\ allVariations' = << >>
    /\ failedUrls' = << >>
    /\ visitedUrls' = {}
    /\ urlsToProcess' = urls
    /\ enqueued' = urls
    /\ processedCount' = 0
    /\ pc' = "loop"
    /\ UNCHANGED << scanVars, linkVars, captureVars, sitemapUrls, variations, currentUrl, options, urls, url, newLinks, error, result >>

\* fs.ensureDir or chromium.launch throws: this.browser is not assigned
initialize_FailBeforeLaunch ==
    /\ pc = "initialize"
    /\ Throw([kind |-> "initialize", url |-> << >>])
    /\ UNCHANGED << scanVars, linkVars, captureVars, sitemapUrls, enqueued, browser, variations, currentUrl, options, urls, allVariations,
                    failedUrls, visitedUrls, urlsToProcess, processedCount, url,
                    newLinks, result, trace >>

\* newPage setViewportSize or new URL(baseUrl) (line 1521) throws: this.browser holds
\* the launched browser
initialize_FailAfterLaunch ==
    /\ pc = "initialize"
    /\ browser' = "open"
    /\ trace' = Append(trace, Event("launch", << >>))
    /\ Throw([kind |-> "initialize", url |-> << >>])
    /\ UNCHANGED << scanVars, linkVars, captureVars, sitemapUrls, enqueued, variations, currentUrl, options, urls, allVariations,
                    failedUrls, visitedUrls, urlsToProcess, processedCount, url,
                    newLinks, result >>

(***************************************************************************)
(* The crawl loop (lines 1523-1621).                                       *)
(***************************************************************************)
\* the while condition
LoopGuard == Len(urlsToProcess) > 0 /\ processedCount < options.maxUrls

\* the visited test left out
NeverVisited(u, visited) == FALSE

\* visitedUrls.has(url)
AlreadyVisited(u, visited) == u \in visited

\* processedCount++ left out
CountPageForgotten(count) == count

\* processedCount++
CountPage(count) == count + 1

\* the head is read and left in the queue
ShiftPeek(queue) == queue

\* urlsToProcess.shift()
Shift(queue) == Tail(queue)
NextUrl(queue) == Head(queue)

\* a URL that is processed without being marked
MarkVisitedForgotten(visited, u) == visited

\* visitedUrls.add(url)
MarkVisited(visited, u) == visited \cup { u }

\* the dequeued URL is already visited: continue
SkipVisited ==
    /\ pc = "loop"
    /\ LoopGuard
    /\ AlreadyVisited(NextUrl(urlsToProcess), visitedUrls)
    /\ url' = NextUrl(urlsToProcess)
    /\ urlsToProcess' = Shift(urlsToProcess)
    /\ UNCHANGED << scanVars, linkVars, captureVars, sitemapUrls, enqueued, browser, variations, currentUrl, options, urls, allVariations,
                    failedUrls, visitedUrls, processedCount, newLinks, pc, error,
                    result, trace >>

\* the dequeued URL is new: mark it, count it, start on the page
Dequeue ==
    /\ pc = "loop"
    /\ LoopGuard
    /\ ~AlreadyVisited(NextUrl(urlsToProcess), visitedUrls)
    /\ url' = NextUrl(urlsToProcess)
    /\ urlsToProcess' = Shift(urlsToProcess)
    /\ visitedUrls' = MarkVisited(visitedUrls, NextUrl(urlsToProcess))
    /\ processedCount' = CountPage(processedCount)
    /\ currentUrl' = NextUrl(urlsToProcess)
    /\ variations' = << >>
    /\ newLinks' = << >>
    /\ pc' = "navigate"
    /\ UNCHANGED << scanVars, linkVars, captureVars, sitemapUrls, enqueued, browser, options, urls, allVariations, failedUrls, error,
                    result, trace >>

\* a catch that records the failure and always goes on with the loop
PageCatchSwallow(e) ==
    /\ failedUrls' = Append(failedUrls, [url |-> url, error |-> e])
    /\ pc' = "loop"
    /\ error' = error

\* a catch that records the failure and always rethrows
PageCatchRethrow(e) ==
    /\ failedUrls' = Append(failedUrls, [url |-> url, error |-> e])
    /\ Throw(e)

\* the catch of the page's try block (lines 1613-1620)
PageCatch(e) ==
    /\ failedUrls' = Append(failedUrls, [url |-> url, error |-> e])
    /\ IF ~options.continueOnError
       THEN Throw(e)
       ELSE /\ pc' = "loop"
            /\ error' = error

navigateToPage_Ok ==
    /\ pc = "navigate"
    /\ trace' = Append(trace, Event("navigate", url))
    /\ pc' = "scan"
    /\ UNCHANGED << scanVars, linkVars, captureVars, sitemapUrls, enqueued, browser, variations, currentUrl, options, urls, allVariations,
                    failedUrls, visitedUrls, urlsToProcess, processedCount, url,
                    newLinks, error, result >>

navigateToPage_Fail ==
    /\ pc = "navigate"
    /\ trace' = trace \o << Event("navigate", url), Event("pageError", url) >>
    /\ PageCatch([kind |-> "navigate", url |-> url])
    /\ UNCHANGED << scanVars, linkVars, captureVars, sitemapUrls, enqueued, browser, variations, currentUrl, options, urls, allVariations,
                    visitedUrls, urlsToProcess, processedCount, url, newLinks, result >>

\* the elements the selector matches on a page of the site: the first k blocks of
\* the site's template, which are the same on every page, and the first one again
CrawlElement(j) == [tag |-> <<"d", "i", "v">>, cls |-> <<"a">>, box |-> Box(j, 0),
                    throws |-> FALSE]
CrawlPage(k) ==
    [j \in 1..k |-> CrawlElement(j)] \o (IF k > 0 THEN << CrawlElement(1) >> ELSE << >>)

\* the keys of the elements accepted on the pages scanned so far
KeysSoFar == { ElementId(CrawlElement(v.index + 1)) : v \in Range(allVariations) }

\* the variations a scan of the current page leaves in this.variations
ScannedVariations(k) == FindElementVariations(CrawlPage(k), << >>, KeysSoFar)

findElementVariations_Ok ==
    /\ pc = "scan"
    /\ trace' = Append(trace, Event("scan", url))
    /\ \E k \in 0..MaxVarsPerPage :
        /\ elements' = CrawlPage(k)
        /\ variations' = ScannedVariations(k)
        /\ pc' = IF Len(ScannedVariations(k)) > 0 THEN "screenshots" ELSE "links"
    /\ UNCHANGED << variationClassPrefix, elemIndex, scanVariations, processedElements,
                    scanPc, outcomes >>
    /\ UNCHANGED << linkVars, captureVars, sitemapUrls, enqueued, browser, currentUrl, options, urls, allVariations, failedUrls,
                    visitedUrls, urlsToProcess, processedCount, url, newLinks,
                    error, result >>

\* a map that numbers the variations of each page from 0
PageVariationsLocalIndex(vs, u, count, base) ==
    [i \in 1..Len(vs) |->
        [f \in DOMAIN vs[i] \cup {"pageUrl", "pageIndex", "globalIndex"} |->
            CASE f = "pageUrl" -> u
              [] f = "pageIndex" -> count
              [] f = "globalIndex" -> i - 1
              [] OTHER -> vs[i][f]]]

\* pageVariations of lines 1560-1565
PageVariations(vs, u, count, base) ==
    [i \in 1..Len(vs) |->
        [f \in DOMAIN vs[i] \cup {"pageUrl", "pageIndex", "globalIndex"} |->
            CASE f = "pageUrl" -> u
              [] f = "pageIndex" -> count
              [] f = "globalIndex" -> base + (i - 1)
              [] OTHER -> vs[i][f]]]

\* a scan that fails after a variation of the page has joined allVariations
findElementVariations_FailAfterPush ==
    /\ pc = "scan"
    /\ trace' = trace \o << Event("scan", url), Event("pageError", url) >>
    /\ PageCatch([kind |-> "scan", url |-> url])
    /\ allVariations' = allVariations \o
          PageVariations(ScannedVariations(1), url, processedCount, Len(allVariations))
    /\ UNCHANGED << scanVars, linkVars, captureVars, sitemapUrls, enqueued, browser, variations, currentUrl, options, urls,
                    visitedUrls, urlsToProcess, processedCount, url, newLinks, result >>

\* page.locator(selector).all() throws
findElementVariations_Fail ==
    /\ pc = "scan"
    /\ trace' = trace \o << Event("scan", url), Event("pageError", url) >>
    /\ PageCatch([kind |-> "scan", url |-> url])
    /\ UNCHANGED << scanVars, linkVars, captureVars, sitemapUrls, enqueued, browser, variations, currentUrl, options, urls, allVariations,
                    visitedUrls, urlsToProcess, processedCount, url, newLinks, result >>

\* takeScreenshots() never throws; then the page's variations join allVariations
takeScreenshots ==
    /\ pc = "screenshots"
    /\ trace' = Append(trace, Event("capture", url))
    /\ allVariations' = allVariations \o
          PageVariations(variations, url, processedCount, Len(allVariations))
    /\ pc' = "links"
    /\ UNCHANGED << scanVars, linkVars, captureVars, sitemapUrls, enqueued, browser, variations, currentUrl, options, urls, failedUrls, visitedUrls,
                    urlsToProcess, processedCount, url, newLinks, error, result >>

\* the gate without its depth test
DepthGateNoDepth == options.followLinks

\* a gate that is still open for the page that brings the count to maxDepth
DepthGateInclusive == options.followLinks /\ processedCount <= options.maxDepth

\* followLinks && processedCount < maxDepth
DepthGate == options.followLinks /\ processedCount < options.maxDepth

\* a discoverer that does not look at the visited set
DiscoverVisitedToo(links, visited, includePatterns, excludePatterns) ==
    ApplyPatterns(links, includePatterns, excludePatterns)

\* discoverSameDomainLinks once page.evaluate has returned `links`
DiscoverSameDomainLinks(links, visited, includePatterns, excludePatterns) ==
    ApplyPatterns(SelectSeq(links, LAMBDA u : u \notin visited),
                  includePatterns, excludePatterns)

\* every discovered link joins the queue
LinksToAddAll(found, maxUrls, count, queue) == found

\* lines 1582-1598: the links that join the queue
LinksToAdd(found, maxUrls, count, queue) ==
    IF Len(found) > 0 THEN Slice0(found, maxUrls - count - Len(queue)) ELSE << >>

\* urlsToProcess.unshift(...linksToAdd)
PushFront(queue, links) == links \o queue

\* urlsToProcess.push(...linksToAdd)
Push(queue, links) == queue \o links

Enqueue(found) ==
    /\ newLinks' = found
    /\ urlsToProcess' = Push(urlsToProcess,
                             LinksToAdd(found, options.maxUrls, processedCount, urlsToProcess))
    /\ enqueued' = enqueued \o
                    LinksToAdd(found, options.maxUrls, processedCount, urlsToProcess)

discoverSameDomainLinks_Ok ==
    /\ pc = "links"
    /\ DepthGate
    /\ trace' = Append(trace, Event("discover", url))
    /\ \E links \in DistinctSeqUpTo(Urls, MaxLinks) :
        Enqueue(DiscoverSameDomainLinks(links, visitedUrls, options.includePatterns,
                                        options.excludePatterns))
    /\ pc' = "delay"
    /\ UNCHANGED << scanVars, linkVars, captureVars, sitemapUrls, browser, variations, currentUrl, options, urls, allVariations,
                    failedUrls, visitedUrls, processedCount, url, error, result >>

\* a discovery failure treated as a failure of the page
LinkCatchPropagates(e) ==
    /\ PageCatch(e)
    /\ UNCHANGED << newLinks, urlsToProcess, enqueued >>

\* the catch inside discoverSameDomainLinks logs and returns [] (lines 1734-1737),
\* so newLinks.length is 0 and nothing is pushed; the catch of lines 1599-1601
\* would log whatever else is thrown between lines 1574 and 1598
LinkCatch(e) ==
    /\ Enqueue(<< >>)
    /\ pc' = "delay"
    /\ UNCHANGED << failedUrls, error >>

\* page.evaluate throws inside discoverSameDomainLinks
discoverSameDomainLinks_Fail ==
    /\ pc = "links"
    /\ DepthGate
    /\ trace' = trace \o << Event("discover", url), Event("discoverError", url) >>
    /\ LinkCatch([kind |-> "links", url |-> url])
    /\ UNCHANGED << scanVars, linkVars, captureVars, sitemapUrls, browser, variations, currentUrl, options, urls, allVariations,
                    visitedUrls, processedCount, url, result >>

SkipDiscovery ==
    /\ pc = "links"
    /\ ~DepthGate
    /\ pc' = "delay"
    /\ UNCHANGED << scanVars, linkVars, captureVars, sitemapUrls, enqueued, browser, variations, currentUrl, options, urls, allVariations,
                    failedUrls, visitedUrls, urlsToProcess, processedCount, url,
                    newLinks, error, result, trace >>

\* processedCount < urls.length && delayBetweenPages > 0
DelayGate == processedCount < Len(urls) /\ options.delayBetweenPages > 0

Delay ==
    /\ pc = "delay"
    /\ DelayGate
    /\ trace' = Append(trace, Event("delay", url))
    /\ pc' = "loop"
    /\ UNCHANGED << scanVars, linkVars, captureVars, sitemapUrls, enqueued, browser, variations, currentUrl, options, urls, allVariations,
                    failedUrls, visitedUrls, urlsToProcess, processedCount, url,
                    newLinks, error, result >>

NoDelay ==
    /\ pc = "delay"
    /\ ~DelayGate
    /\ pc' = "loop"
    /\ UNCHANGED << scanVars, linkVars, captureVars, sitemapUrls, enqueued, browser, variations, currentUrl, options, urls, allVariations,
                    failedUrls, visitedUrls, urlsToProcess, processedCount, url,
                    newLinks, error, result, trace >>

(***************************************************************************)
(* After the loop: report, return, finally (lines 1623-1660).              *)
(***************************************************************************)
\* the report is generated while the loop still has a page to process
ExitLoopEarly ==
    /\ pc = "loop"
    /\ variations' = allVariations
    /\ pc' = "report"
    /\ UNCHANGED << scanVars, linkVars, captureVars, sitemapUrls, enqueued, browser, currentUrl, options, urls, allVariations, failedUrls,
                    visitedUrls, urlsToProcess, processedCount, url, newLinks,
                    error, result, trace >>

ExitLoop ==
    /\ pc = "loop"
    /\ ~LoopGuard
    /\ variations' = allVariations
    /\ pc' = "report"
    /\ UNCHANGED << scanVars, linkVars, captureVars, sitemapUrls, enqueued, browser, currentUrl, options, urls, allVariations, failedUrls,
                    visitedUrls, urlsToProcess, processedCount, url, newLinks,
                    error, result, trace >>

\* a return statement that counts the pages processed
ReturnValueOfProcessed ==
    [variations |-> variations, scrapedUrls |-> urls, failedUrls |-> failedUrls,
     stats |-> [totalPages |-> processedCount,
                successfulPages |-> processedCount - Len(failedUrls),
                totalVariations |-> Len(variations)]]

\* the object of the return statement
ReturnValue ==
    [variations |-> variations, scrapedUrls |-> urls, failedUrls |-> failedUrls,
     stats |-> [totalPages |-> Len(urls),
                successfulPages |-> Len(urls) - Len(failedUrls),
                totalVariations |-> Len(variations)]]

generateSitemapReport_Ok ==
    /\ pc = "report"
    /\ trace' = Append(trace, Event("report", << >>))
    /\ result' = [state |-> "returning", value |-> ReturnValue]
    /\ pc' = "finally"
    /\ UNCHANGED << scanVars, linkVars, captureVars, sitemapUrls, enqueued, browser, variations, currentUrl, options, urls, allVariations,
                    failedUrls, visitedUrls, urlsToProcess, processedCount, url,
                    newLinks, error >>

generateSitemapReport_Fail ==
    /\ pc = "report"
    /\ trace' = Append(trace, Event("report", << >>))
    /\ Throw([kind |-> "report", url |-> << >>])
    /\ UNCHANGED << scanVars, linkVars, captureVars, sitemapUrls, enqueued, browser, variations, currentUrl, options, urls, allVariations,
                    failedUrls, visitedUrls, urlsToProcess, processedCount, url,
                    newLinks, result >>

\* if (this.browser) await this.browser.close()
CloseBrowser(b) == b # "null"

\* the promise of scrapeSitemap settles once the finally block has run
Settle(e, r) ==
    IF e # NoError THEN [state |-> "rejected", error |-> e]
    ELSE [state |-> "resolved", value |-> r.value]

Finally ==
    /\ pc = "finally"
    /\ IF CloseBrowser(browser)
       THEN /\ browser' = "closed"
            /\ trace' = Append(trace, Event("close", << >>))
       ELSE UNCHANGED << browser, trace >>
    /\ result' = Settle(error, result)
    /\ pc' = "done"
    /\ UNCHANGED << scanVars, linkVars, captureVars, sitemapUrls, enqueued, variations, currentUrl, options, urls, allVariations,
                    failedUrls, visitedUrls, urlsToProcess, processedCount, url,
                    newLinks, error >>

(***************************************************************************)
(* discoverSameDomainLinks (publish-timbertech.yml:1667-1738).             *)
(*                                                                         *)
(* URLs and hrefs are character sequences.  The hrefs of a page are built  *)
(* from the pieces below; for these strings the URL parser gives the host  *)
(* as the characters between "http://" and the first "/", "?" or "#", and  *)
(* rejects a string that has no scheme.                                    *)
(***************************************************************************)
Http == <<"h", "t", "t", "p">>
Protocol == Http \o <<":">>
Slashes == <<"/", "/">>
Mailto == <<"m", "a", "i", "l", "t", "o", ":">>
Tel == <<"t", "e", "l", ":">>

\* the hostname of baseUrl
BaseDomain == <<"d">>

\* s.startsWith(p)
StartsWith(s, p) == Len(s) >= Len(p) /\ SubSeq(s, 1, Len(p)) = p

\* s.split(c)[0]
Before(s, c) ==
    IF c \notin Range(s) THEN s
    ELSE SubSeq(s, 1, (CHOOSE k \in 1..Len(s) :
                          s[k] = c /\ \A m \in 1..(k - 1) : s[m] # c) - 1)

\* s up to and including its last "/"
UpToLastSlash(s) ==
    IF "/" \notin Range(s) THEN << >>
    ELSE SubSeq(s, 1, CHOOSE k \in 1..Len(s) :
                          s[k] = "/" /\ \A m \in (k + 1)..Len(s) : s[m] # "/")

\* a cleaning that forgets the query string
StripFragmentOnly(u) == Before(u, "#")

\* absoluteUrl.split("#")[0].split("?")[0]
CleanUrl(u) == Before(Before(u, "#"), "?")

\* new URL(u) does not throw: a scheme followed by a non-empty host
ValidUrl(u) ==
    /\ StartsWith(u, Protocol \o Slashes)
    /\ Before(Before(Before(SubSeq(u, Len(Protocol) + 3, Len(u)), "/"), "?"), "#") # << >>

\* new URL(u).hostname
Hostname(u) ==
    Before(Before(Before(SubSeq(u, Len(Protocol) + 3, Len(u)), "/"), "?"), "#")

\* new URL(href, base).toString() for an href that is a query or a relative path
Resolve(href, base) ==
    IF StartsWith(href, <<"?">>) THEN CleanUrl(base) \o href
    ELSE UpToLastSlash(CleanUrl(base)) \o href

\* the anchors the forEach callback returns from at once
SkippedHref(href) ==
    \/ href = << >>
    \/ /\ ~StartsWith(href, <<"/">>)
       /\ ~StartsWith(href, Http)
       /\ \/ StartsWith(href, <<"#">>)
          \/ StartsWith(href, Mailto)
          \/ StartsWith(href, Tel)

\* absoluteUrl of lines 1685-1699
AbsoluteUrl(href, base, domain) ==
    IF StartsWith(href, <<"/">>) THEN Protocol \o Slashes \o domain \o href
    ELSE IF StartsWith(href, Http) THEN href
    ELSE Resolve(href, base)

\* [...new Set(list)]
RECURSIVE NewSet(_)
NewSet(list) ==
    IF list = << >> THEN << >>
    ELSE LET front == NewSet(SubSeq(list, 1, Len(list) - 1))
         IN  IF list[Len(list)] \in Range(front) THEN front
             ELSE Append(front, list[Len(list)])

\* the pieces of an href
HrefPrefixes ==
    { << >>, <<"/">>, <<"/", "/", "e">>, Protocol \o Slashes \o <<"d">>,
      Protocol \o Slashes \o <<"e">>, Protocol \o Slashes \o <<"d", "e">>,
      Http, <<"#">>, Mailto }
HrefPaths == { << >>, <<"/", "a">>, <<"/", "b">>, <<"a">> }
HrefQueries == { << >>, <<"?", "q">> }
HrefFragments == { << >>, <<"#", "f">>, <<"#", "?">> }

Hrefs ==
    { pre \o path \o query \o frag :
        pre \in HrefPrefixes, path \in HrefPaths,
        query \in HrefQueries, frag \in HrefFragments }

\* the hrefs of the pages with several anchors
PageHrefs ==
    { <<"/", "a">>, <<"/", "a", "?", "q">>, <<"/", "b", "#", "f">>,
      Protocol \o Slashes \o <<"e", "/", "a">>, <<"a">>, Http }

\* the page the browser is on: of the base domain or, after a redirect, of another
Locations ==
    { Protocol \o Slashes \o <<"d", "/", "a">>, Protocol \o Slashes \o <<"e", "/", "a">> }

\* the visited sets: the URLs as they were navigated to
VisitedOptions ==
    { {}, { Protocol \o Slashes \o <<"d", "/", "a">> },
      { Protocol \o Slashes \o <<"d", "/", "a", "?", "q">> } }

LinkPatterns == { <<"/", "a">>, <<"b">>, <<"d", "/">> }

DiscoverInputs ==
    { [anchors |-> hs, location |-> Protocol \o Slashes \o <<"d", "/", "a">>,
       visitedUrls |-> v, includePatterns |-> inc, excludePatterns |-> exc] :
        hs \in SeqUpTo(PageHrefs, MaxAnchors), v \in VisitedOptions,
        inc \in SeqUpTo(LinkPatterns, MaxPatterns),
        exc \in SeqUpTo(LinkPatterns, MaxPatterns) }
    \cup
    { [anchors |-> << h >>, location |-> loc,
       visitedUrls |-> v, includePatterns |-> << >>, excludePatterns |-> << >>] :
        h \in Hrefs, loc \in Locations, v \in VisitedOptions }

NoDiscoverArgs == [visitedUrls |-> {}, includePatterns |-> << >>, excludePatterns |-> << >>]

InitLinks ==
    /\ anchors = << >>
    /\ locationHref = << >>
    /\ discoverArgs = NoDiscoverArgs
    /\ anchorIndex = 0
    /\ discoveredLinks = << >>
    /\ pageLinks = << >>
    /\ candidateLinks = << >>
    /\ filteredLinks = << >>
    /\ discoverPc = "idle"

\* the call, up to the start of the callback given to page.evaluate
discoverSameDomainLinks_Call ==
    /\ discoverPc = "idle"
    /\ \E inp \in DiscoverInputs :
        /\ anchors' = inp.anchors
        /\ locationHref' = inp.location
        /\ discoverArgs' = [visitedUrls |-> inp.visitedUrls,
                            includePatterns |-> inp.includePatterns,
                            excludePatterns |-> inp.excludePatterns]
    /\ anchorIndex' = 0
    /\ discoveredLinks' = << >>
    /\ discoverPc' = "anchors"
    /\ UNCHANGED << crawlVars, scanVars, captureVars, pageLinks, candidateLinks, filteredLinks >>

\* the anchor of the current forEach turn
Anchor == anchors[anchorIndex + 1]

InAnchors == discoverPc = "anchors" /\ anchorIndex < Len(anchors)

\* page.evaluate rejects: the catch of lines 1734-1737 returns []
evaluate_Fail ==
    /\ discoverPc = "anchors"
    /\ anchorIndex = 0
    /\ filteredLinks' = << >>
    /\ discoverPc' = "failed"
    /\ UNCHANGED << crawlVars, scanVars, captureVars, anchors, locationHref, discoverArgs, anchorIndex,
                    discoveredLinks, pageLinks, candidateLinks >>

\* no href, or a fragment, mailto: or tel: link
AnchorSkipped ==
    /\ InAnchors
    /\ SkippedHref(Anchor)
    /\ anchorIndex' = anchorIndex + 1
    /\ UNCHANGED << crawlVars, scanVars, captureVars, anchors, locationHref, discoverArgs,
                    discoveredLinks, pageLinks, candidateLinks, filteredLinks, discoverPc >>

\* new URL(absoluteUrl) throws: the inner catch skips the anchor
AnchorInvalid ==
    /\ InAnchors
    /\ ~SkippedHref(Anchor)
    /\ ~ValidUrl(AbsoluteUrl(Anchor, locationHref, BaseDomain))
    /\ anchorIndex' = anchorIndex + 1
    /\ UNCHANGED << crawlVars, scanVars, captureVars, anchors, locationHref, discoverArgs,
                    discoveredLinks, pageLinks, candidateLinks, filteredLinks, discoverPc >>

\* linkDomain !== domain
AnchorOtherDomain ==
    /\ InAnchors
    /\ ~SkippedHref(Anchor)
    /\ ValidUrl(AbsoluteUrl(Anchor, locationHref, BaseDomain))
    /\ Hostname(AbsoluteUrl(Anchor, locationHref, BaseDomain)) # BaseDomain
    /\ anchorIndex' = anchorIndex + 1
    /\ UNCHANGED << crawlVars, scanVars, captureVars, anchors, locationHref, discoverArgs,
                    discoveredLinks, pageLinks, candidateLinks, filteredLinks, discoverPc >>

\* discoveredLinks.push(cleanUrl)
AnchorPushed ==
    /\ InAnchors
    /\ ~SkippedHref(Anchor)
    /\ ValidUrl(AbsoluteUrl(Anchor, locationHref, BaseDomain))
    /\ Hostname(AbsoluteUrl(Anchor, locationHref, BaseDomain)) = BaseDomain
    /\ discoveredLinks' =
          Append(discoveredLinks, CleanUrl(AbsoluteUrl(Anchor, locationHref, BaseDomain)))
    /\ anchorIndex' = anchorIndex + 1
    /\ UNCHANGED << crawlVars, scanVars, captureVars, anchors, locationHref, discoverArgs,
                    pageLinks, candidateLinks, filteredLinks, discoverPc >>

\* return [...new Set(discoveredLinks)]
evaluate_Return ==
    /\ discoverPc = "anchors"
    /\ anchorIndex >= Len(anchors)
    /\ pageLinks' = NewSet(discoveredLinks)
    /\ discoverPc' = "filter"
    /\ UNCHANGED << crawlVars, scanVars, captureVars, anchors, locationHref, discoverArgs, anchorIndex,
                    discoveredLinks, candidateLinks, filteredLinks >>

\* lines 1715-1733: the visited filter, the patterns, the return
discoverSameDomainLinks_Return ==
    /\ discoverPc = "filter"
    /\ candidateLinks' = SelectSeq(pageLinks, LAMBDA u : u \notin discoverArgs.visitedUrls)
    /\ filteredLinks' = DiscoverSameDomainLinks(pageLinks, discoverArgs.visitedUrls,
                                                discoverArgs.includePatterns,
                                                discoverArgs.excludePatterns)
    /\ discoverPc' = "done"
    /\ UNCHANGED << crawlVars, scanVars, captureVars, anchors, locationHref, discoverArgs, anchorIndex,
                    discoveredLinks, pageLinks >>

NextLinks ==
    \/ discoverSameDomainLinks_Call
    \/ evaluate_Fail
    \/ AnchorSkipped
    \/ AnchorInvalid
    \/ AnchorOtherDomain
    \/ AnchorPushed
    \/ evaluate_Return
    \/ discoverSameDomainLinks_Return

(***************************************************************************)
(* takeScreenshots (src/src/scraper.js:366-742).                           *)
(*                                                                         *)
(* One pass over this.variations.  What the page does is chosen step by    *)
(* step: whether the element is visible, whether the preparation throws,   *)
(* which final bounding box the element has (the clip region and the       *)
(* height test follow from it), and whether each capture call              *)
(* throws.  A capture tier is "clip" (page.screenshot with clipRegion),    *)
(* "conservative" (with conservativeClip), "content" (with the content     *)
(* bounds after scrolling) or "element" (element.screenshot).              *)
(***************************************************************************)
\* const maxScreenshots = 50
maxScreenshots == 50

\* page.setViewportSize({ width: 1024, height: 768 })
ViewportWidth == 1024

\* const padding = 10
padding == 10

\* the bounding boxes a page gives an element: left of the viewport, inside it
\* and beyond its right edge; empty, narrow and wider than the viewport; low and
\* taller than 1000px (integer coordinates, so Math.floor and Math.ceil keep them)
BoxXs == { -5, 500, 1030 }
BoxYs == { -5, 300 }
BoxWidths == { 0, 100, 2000 }
BoxHeights == { 150, 1001 }

BoundingBoxes == [x : BoxXs, y : BoxYs, width : BoxWidths, height : BoxHeights]

\* element.boundingBox() resolved to null
NullBox == [null |-> TRUE]

\* no clipRegion was computed
NullRegion == [null |-> TRUE]

\* the box of an element of a page where everything is captured at once
PlainBox == [x |-> 500, y |-> 300, width |-> 100, height |-> 150]

MathMax(a, b) == IF a >= b THEN a ELSE b

MathMin(a, b) == IF a <= b THEN a ELSE b

\* finalBoundingBox && finalBoundingBox.width > 0 && finalBoundingBox.height > 0
BoxValid(box) == box # NullBox /\ box.width > 0 /\ box.height > 0

\* a region whose width is not cut to what is left of the viewport
ClipRegionUnclamped(box) ==
    [x |-> MathMax(0, box.x - padding),
     y |-> MathMax(0, box.y - padding),
     width |-> MathMin(box.width + padding * 2, ViewportWidth - 10),
     height |-> MathMin(box.height + padding * 2, MathMax(200, box.height + 40))]

\* const clipRegion = { x, y, width, height } (lines 464-480)
ClipRegion(box) ==
    [x |-> MathMax(0, box.x - padding),
     y |-> MathMax(0, box.y - padding),
     width |-> MathMin(ViewportWidth - MathMax(0, box.x - padding),
                       MathMin(box.width + padding * 2, ViewportWidth - 10)),
     height |-> MathMin(box.height + padding * 2, MathMax(200, box.height + 40))]

\* the test of lines 490-494
ClipRegionValid(region) ==
    /\ region.width > 10
    /\ region.height > 10
    /\ region.x + region.width <= ViewportWidth

\* a limit that stops one short of maxScreenshots
ScreenshotCountOneShort(n) == IF n < maxScreenshots THEN n ELSE maxScreenshots - 1

\* Math.min(this.variations.length, maxScreenshots)
ScreenshotCount(n) == IF n < maxScreenshots THEN n ELSE maxScreenshots

\* the variations a scan left in this.variations before the pass
UncapturedVariations(n) == [k \in 1..n |-> [index |-> k - 1, screenshotPath |-> "null"]]

\* `element_${i}_${timestamp}.png`
ScreenshotName(i) == << "element_", i, ".png" >>

InitCapture ==
    /\ screenshotCount = 0
    /\ shotIndex = 0
    /\ capturePc = "idle"
    /\ finalBoundingBox = NullBox
    /\ clipRegion = NullRegion
    /\ tall = FALSE
    /\ plain = FALSE
    /\ attempts = << >>
    /\ shotOutcomes = << >>

\* lines 366-374: a pass over a page with few variations, where anything may
\* happen, or over a page with more than maxScreenshots of them, all of which are
\* visible and captured at the first attempt
takeScreenshots_Call ==
    /\ capturePc = "idle"
    /\ \E n \in (0..MaxShots) \cup { maxScreenshots + 1 } :
        /\ variations' = UncapturedVariations(n)
        /\ screenshotCount' = ScreenshotCount(n)
        /\ plain' = (n > MaxShots)
    /\ shotIndex' = 0
    /\ attempts' = << >>
    /\ shotOutcomes' = << >>
    /\ capturePc' = "visible"
    /\ UNCHANGED << crawlLocals, scanVars, linkVars, finalBoundingBox, clipRegion, tall >>

InPass == shotIndex < screenshotCount

\* a catch that gives up the pass
CatchShotAborts(i) == screenshotCount

\* the catch of lines 735-740 and the continue of line 697: on to i + 1
NextShot(i) == i + 1

\* a capture call, with its outcome, in the history
Attempt(tier, ok) == [i |-> shotIndex, tier |-> tier, ok |-> ok]

\* the path is assigned although no capture was saved
GiveUpWithPath(outcome) ==
    /\ shotOutcomes' = Append(shotOutcomes, outcome)
    /\ shotIndex' = NextShot(shotIndex)
    /\ capturePc' = "visible"
    /\ variations' = [variations EXCEPT
                        ![shotIndex + 1].screenshotPath = ScreenshotName(shotIndex)]

\* the end of the iteration of a variation whose capture was given up
GiveUp(outcome) ==
    /\ shotOutcomes' = Append(shotOutcomes, outcome)
    /\ shotIndex' = NextShot(shotIndex)
    /\ capturePc' = "visible"
    /\ UNCHANGED variations

\* variation.screenshotPath = screenshotName (line 727)
Saved ==
    /\ variations' = [variations EXCEPT
                        ![shotIndex + 1].screenshotPath = ScreenshotName(shotIndex)]
    /\ shotOutcomes' = Append(shotOutcomes, "saved")
    /\ shotIndex' = shotIndex + 1
    /\ capturePc' = "visible"

\* isVisible resolves to false, or rejects and is mapped to false (lines 390-392, 729-733)
NotVisible ==
    /\ capturePc = "visible"
    /\ InPass
    /\ ~plain
    /\ GiveUp("notVisible")
    /\ UNCHANGED << crawlLocals, scanVars, linkVars, finalBoundingBox, clipRegion, screenshotCount, tall, plain, attempts >>

\* an await of lines 396-452 throws: the outer catch
PrepareError ==
    /\ capturePc = "visible"
    /\ InPass
    /\ ~plain
    /\ GiveUp("error")
    /\ UNCHANGED << crawlLocals, scanVars, linkVars, finalBoundingBox, clipRegion, screenshotCount, tall, plain, attempts >>

\* lines 394-495: the element is visible; the final bounding box and the clip
\* region decide between the clipped capture and element.screenshot
Prepare ==
    /\ capturePc = "visible"
    /\ InPass
    /\ \E box \in BoundingBoxes \cup { NullBox } :
        /\ plain => box = PlainBox
        /\ finalBoundingBox' = box
        /\ clipRegion' = IF BoxValid(box) THEN ClipRegion(box) ELSE NullRegion
        /\ tall' = (box # NullBox /\ box.height > 1000)
        /\ capturePc' = IF BoxValid(box) /\ ClipRegionValid(ClipRegion(box))
                        THEN "clip" ELSE "fallback"
    /\ UNCHANGED << crawlLocals, scanVars, linkVars, variations, screenshotCount, shotIndex,
                    plain, attempts, shotOutcomes >>

\* a catch (clipError) that does not look at the height
AfterClipErrorAnyHeight(isTall) == "conservative"

\* catch (clipError): finalBoundingBox.height > 1000 decides (lines 504-509, 687-688)
AfterClipError(isTall) == IF isTall THEN "conservative" ELSE "elementTry"

\* lines 496-508: page.screenshot with clipRegion
DirectClip ==
    /\ capturePc = "clip"
    /\ \E ok \in BOOLEAN :
        /\ plain => ok
        /\ attempts' = Append(attempts, Attempt("clip", ok))
        /\ IF ok THEN Saved
           ELSE /\ capturePc' = AfterClipError(tall)
                /\ UNCHANGED << variations, shotIndex, shotOutcomes >>
    /\ UNCHANGED << crawlLocals, scanVars, linkVars, finalBoundingBox, clipRegion, screenshotCount, tall, plain >>

\* lines 509-545: page.screenshot with conservativeClip, for an element taller than 1000px
ConservativeClip ==
    /\ capturePc = "conservative"
    /\ \E ok \in BOOLEAN :
        /\ attempts' = Append(attempts, Attempt("conservative", ok))
        /\ IF ok THEN Saved
           ELSE /\ capturePc' = "content"
                /\ UNCHANGED << variations, shotIndex, shotOutcomes >>
    /\ UNCHANGED << crawlLocals, scanVars, linkVars, finalBoundingBox, clipRegion, screenshotCount, tall, plain >>

\* lines 547-634: the content bounds are computed, the page is scrolled and the
\* bounds are read again; an evaluate that throws goes to the catch of line 675
ContentBounds ==
    /\ capturePc = "content"
    /\ \E next \in {"contentCatch", "contentClip", "contentElement"} : capturePc' = next
    /\ UNCHANGED << crawlLocals, scanVars, linkVars, finalBoundingBox, clipRegion, variations, screenshotCount, shotIndex,
                    tall, plain, attempts, shotOutcomes >>

\* lines 635-650: page.screenshot with the scrolled content bounds
ContentClip ==
    /\ capturePc = "contentClip"
    /\ \E ok \in BOOLEAN :
        /\ attempts' = Append(attempts, Attempt("content", ok))
        /\ IF ok THEN Saved
           ELSE /\ capturePc' = "contentCatch"
                /\ UNCHANGED << variations, shotIndex, shotOutcomes >>
    /\ UNCHANGED << crawlLocals, scanVars, linkVars, finalBoundingBox, clipRegion, screenshotCount, tall, plain >>

\* lines 651-673: element.screenshot inside the try of the content-aware capture
ContentElement ==
    /\ capturePc = "contentElement"
    /\ \E ok \in BOOLEAN :
        /\ attempts' = Append(attempts, Attempt("element", ok))
        /\ IF ok THEN Saved
           ELSE /\ capturePc' = "contentCatch"
                /\ UNCHANGED << variations, shotIndex, shotOutcomes >>
    /\ UNCHANGED << crawlLocals, scanVars, linkVars, finalBoundingBox, clipRegion, screenshotCount, tall, plain >>

\* lines 675-686: catch (contentError): element.screenshot, not caught here
ContentCatch ==
    /\ capturePc = "contentCatch"
    /\ \E ok \in BOOLEAN :
        /\ attempts' = Append(attempts, Attempt("element", ok))
        /\ IF ok THEN Saved ELSE GiveUp("error")
    /\ UNCHANGED << crawlLocals, scanVars, linkVars, finalBoundingBox, clipRegion, screenshotCount, tall, plain >>

\* lines 688-701: element.screenshot in its own try; on elementError, continue
ElementTry ==
    /\ capturePc = "elementTry"
    /\ \E ok \in BOOLEAN :
        /\ attempts' = Append(attempts, Attempt("element", ok))
        /\ IF ok THEN Saved ELSE GiveUp("skipped")
    /\ UNCHANGED << crawlLocals, scanVars, linkVars, finalBoundingBox, clipRegion, screenshotCount, tall, plain >>

\* lines 703-725: element.screenshot for an unusable clip region or bounding box
Fallback ==
    /\ capturePc = "fallback"
    /\ \E ok \in BOOLEAN :
        /\ attempts' = Append(attempts, Attempt("element", ok))
        /\ IF ok THEN Saved ELSE GiveUp("error")
    /\ UNCHANGED << crawlLocals, scanVars, linkVars, finalBoundingBox, clipRegion, screenshotCount, tall, plain >>

\* the for loop ends and the function returns
takeScreenshots_Return ==
    /\ capturePc = "visible"
    /\ ~InPass
    /\ capturePc' = "done"
    /\ UNCHANGED << crawlLocals, scanVars, linkVars, finalBoundingBox, clipRegion, variations, screenshotCount, shotIndex,
                    tall, plain, attempts, shotOutcomes >>

NextCapture ==
    \/ takeScreenshots_Call
    \/ NotVisible
    \/ PrepareError
    \/ Prepare
    \/ DirectClip
    \/ ConservativeClip
    \/ ContentBounds
    \/ ContentClip
    \/ ContentElement
    \/ ContentCatch
    \/ ElementTry
    \/ Fallback
    \/ takeScreenshots_Return

(***************************************************************************)
(* Observations on the history of a crawl.                                 *)
(***************************************************************************)
EventsOf(kind) == SelectSeq(trace, LAMBDA e : e.ev = kind)
Count(kind) == Len(EventsOf(kind))

\* the URLs handed to navigateToPage, in call order
Navigated == [i \in 1..Count("navigate") |-> EventsOf("navigate")[i].url]
\* the URLs scanned by findElementVariations, in call order
Scanned == [i \in 1..Count("scan") |-> EventsOf("scan")[i].url]

NoRepeats(s) == \A i, j \in 1..Len(s) : i # j => s[i] # s[j]

\* a sequence without the later occurrences of each element
RECURSIVE FirstOccurrences(_)
FirstOccurrences(s) ==
    IF s = << >> THEN << >>
    ELSE LET front == FirstOccurrences(SubSeq(s, 1, Len(s) - 1))
         IN  IF s[Len(s)] \in Range(front) THEN front ELSE Append(front, s[Len(s)])

\* the number of URLs taken off the queue so far
DequeuedCount == Len(enqueued) - Len(urlsToProcess)

\* the call has got past initialize(): the crawl state exists
Crawling == pc \notin {"idle", "fetch", "initialize"}

(***************************************************************************)
(* C1. In every reachable state of a crawl processedCount <= maxUrls, and  *)
(* the number of pages navigated never exceeds maxUrls.                    *)
(***************************************************************************)
CrawlBound ==
    /\ processedCount <= options.maxUrls
    /\ Len(Navigated) <= options.maxUrls

\* the cap binds: maxUrls pages were navigated and a discovered page was left out
CrawlBoundReached ==
    /\ pc = "done"
    /\ result.state = "resolved"
    /\ Len(Navigated) = options.maxUrls
    /\ \E i \in 1..Len(newLinks) : newLinks[i] \notin visitedUrls

(***************************************************************************)
(* C2. Within one crawl each URL is navigated and scanned at most once,    *)
(* also when it was enqueued more than once.                               *)
(***************************************************************************)
NoRevisit == NoRepeats(Navigated) /\ NoRepeats(Scanned)

\* a link was discovered on two different pages, enqueued twice, and scanned once
EnqueuedTwice ==
    /\ pc = "done"
    /\ \E j, k \in 1..DequeuedCount :
          /\ Len(urls) < j
          /\ j < k
          /\ enqueued[j] = enqueued[k]
          /\ enqueued[k] \in Range(Scanned)
    /\ Count("discover") >= 2

(***************************************************************************)
(* C3. On every exit path of a crawl that has launched the browser, the    *)
(* browser is closed exactly once, after the last page operation and the   *)
(* report step; a crawl that launched none closes none.                    *)
(***************************************************************************)
BrowserReleasedOnce ==
    /\ Count("close") <= Count("launch")
    /\ Count("launch") <= 1
    /\ Count("close") = 1 => trace[Len(trace)].ev = "close" /\ pc = "done"
    /\ pc = "done" => Count("close") = Count("launch")
    /\ pc = "done" /\ Count("launch") = 1 => browser = "closed"

\* report generation failed after a page failure was survived
ClosedAfterReportFailure ==
    /\ pc = "done"
    /\ error.kind = "report"
    /\ Count("pageError") > 0
    /\ Count("close") = 1
    /\ result.state = "rejected"

(***************************************************************************)
(* C4. With continueOnError=false the first page whose navigation or scan  *)
(* fails ends the crawl: nothing further is dequeued or navigated, no      *)
(* report is generated, the crawl rejects with that page's error and the   *)
(* browser is closed exactly once.                                         *)
(***************************************************************************)
FatalAbort ==
    (Crawling /\ ~options.continueOnError /\ Count("pageError") > 0) =>
        /\ pc \in {"finally", "done"}
        /\ Count("pageError") = 1
        /\ Len(failedUrls) = 1
        /\ failedUrls[1].url = EventsOf("pageError")[1].url
        /\ failedUrls[1].url = url
        /\ error = failedUrls[1].error
        /\ error.kind \in {"navigate", "scan"}
        /\ error.url = url
        /\ Count("report") = 0
        /\ \A i \in 1..Len(trace) :
              trace[i].ev = "pageError" =>
                  \A j \in (i + 1)..Len(trace) : trace[j].ev = "close"
        /\ pc = "done" =>
              /\ result = [state |-> "rejected", error |-> error]
              /\ Count("close") = 1

\* the crawl was aborted while URLs were still waiting in the queue
AbortedWithQueue ==
    /\ pc = "done"
    /\ ~options.continueOnError
    /\ Count("pageError") = 1
    /\ Len(urlsToProcess) > 0
    /\ Len(Navigated) = 2

(***************************************************************************)
(* C5. With continueOnError=true a page whose navigation or scan fails is  *)
(* recorded exactly once in failedUrls as (url, error), the crawl does not *)
(* reject because of it, the loop goes on with the queue as it was, and    *)
(* the result returned at the end carries that failedUrls list.            *)
(***************************************************************************)
FailuresRecorded ==
    (Crawling /\ options.continueOnError) =>
        /\ Len(failedUrls) = Count("pageError")
        /\ \A i \in 1..Len(failedUrls) :
              /\ failedUrls[i].url = EventsOf("pageError")[i].url
              /\ failedUrls[i].error.url = failedUrls[i].url
              /\ failedUrls[i].error.kind \in {"navigate", "scan"}
        /\ NoRepeats([i \in 1..Len(failedUrls) |-> failedUrls[i].url])
        /\ error.kind \notin {"navigate", "scan"}
        /\ result.state = "resolved" => result.value.failedUrls = failedUrls

FailureStep ==
    (options.continueOnError /\ Count("pageError")' > Count("pageError")) =>
        /\ pc' = "loop"
        /\ urlsToProcess' = urlsToProcess
        /\ error' = NoError

ContinueOnError == []FailuresRecorded /\ [][FailureStep]_vars

\* a page failed, a later page was navigated, and the crawl resolved
ResolvedWithFailure ==
    /\ pc = "done"
    /\ options.continueOnError
    /\ result.state = "resolved"
    /\ Len(result.value.failedUrls) = 1
    /\ \E i, j \in 1..Len(trace) :
          i < j /\ trace[i].ev = "pageError" /\ trace[j].ev = "navigate"

(***************************************************************************)
(* C6. Link discovery is never run for a page processed when               *)
(* processedCount >= maxDepth or followLinks is false, and from then on no *)
(* URL is enqueued; the queue is still drained until it is empty or        *)
(* processedCount reaches maxUrls.                                         *)
(***************************************************************************)
GateClosed ==
    Crawling /\ (~options.followLinks \/ processedCount >= options.maxDepth)

GateClosedStep ==
    GateClosed =>
        /\ Count("discover")' = Count("discover")
        /\ enqueued' = enqueued
        /\ GateClosed'

Drained ==
    pc \in {"report"} => (urlsToProcess = << >> \/ processedCount >= options.maxUrls)

DepthGateHolds == [][GateClosedStep]_vars /\ []Drained

\* a queued link was processed after the gate had closed
DrainedPastGate ==
    /\ pc = "done"
    /\ result.state = "resolved"
    /\ options.followLinks
    /\ processedCount > options.maxDepth
    /\ Len(enqueued) > Len(urls)
    /\ Navigated[Len(Navigated)] \notin Range(urls)

(***************************************************************************)
(* C7. Pages are navigated in FIFO order of enqueueing: the seeds in the   *)
(* given order before any discovered link, the discovered links in the     *)
(* order in which they were appended to the queue.                         *)
(***************************************************************************)
FifoOrder ==
    LET taken == FirstOccurrences(SubSeq(enqueued, 1, DequeuedCount))
    IN  /\ urlsToProcess = SubSeq(enqueued, DequeuedCount + 1, Len(enqueued))
        /\ Navigated = IF pc = "navigate" THEN SubSeq(taken, 1, Len(taken) - 1)
                       ELSE taken
        /\ \A i, j \in 1..Len(Navigated) :
              (i < j /\ Navigated[j] \in Range(urls)) => Navigated[i] \in Range(urls)
        /\ pc \in {"report"} => Range(urls) \subseteq Range(Navigated)

\* a link discovered on the first seed was navigated after the second seed
DiscoveredAfterSeeds ==
    /\ pc = "done"
    /\ Len(urls) = 2
    /\ Len(Navigated) = 3
    /\ Navigated[1] = urls[1]
    /\ Navigated[2] = urls[2]
    /\ \E i \in 1..Len(trace) : trace[i].ev = "discover" /\ trace[i].n = 1
    /\ Len(enqueued) = 3


(***************************************************************************)
(* Observations on a scan.                                                 *)
(***************************************************************************)
\* the class tokens of a raw class attribute: the maximal space-free pieces
\* that are not blank
ClassTokens(raw) ==
    { SubSeq(raw, ab[1], ab[2]) :
        ab \in { p \in (1..Len(raw)) \X (1..Len(raw)) :
                    /\ p[1] <= p[2]
                    /\ \A k \in p[1]..p[2] : raw[k] # " "
                    /\ p[1] = 1 \/ raw[p[1] - 1] = " "
                    /\ p[2] = Len(raw) \/ raw[p[2] + 1] = " "
                    /\ \E k \in p[1]..p[2] : raw[k] \notin Whitespace } }

\* the reference predicate of the variation filter
ReferenceAccepts(raw, prefix) ==
    \/ prefix = << >>
    \/ /\ \E t \in ClassTokens(raw) : Includes(t, prefix)
       /\ \A t \in ClassTokens(raw) :
             ~(Includes(t, prefix) /\ Includes(t, <<"_", "_">>))

\* the fingerprint of an element: tag, raw class string, x and y, 0 for a missing box
Fingerprint(e) ==
    << e.tag, e.cls, IF e.box.present THEN e.box.x ELSE 0,
       IF e.box.present THEN e.box.y ELSE 0 >>

\* the enumeration positions (from 0) of the elements accepted so far, in order
RECURSIVE AcceptedPositions(_)
AcceptedPositions(outs) ==
    IF outs = << >> THEN << >>
    ELSE AcceptedPositions(SubSeq(outs, 1, Len(outs) - 1)) \o
         (IF outs[Len(outs)] = "accepted" THEN << Len(outs) - 1 >> ELSE << >>)

(***************************************************************************)
(* C8. The variation filter accepts an element iff the prefix is empty, or *)
(* some class token contains the prefix and no class token contains both   *)
(* the prefix and "__": the decision of the scan on every element that     *)
(* reaches the filter equals this reference predicate.                     *)
(***************************************************************************)
FilterDecision ==
    \A k \in 1..Len(outcomes) :
        /\ outcomes[k] = "accepted" => ReferenceAccepts(elements[k].cls, variationClassPrefix)
        /\ outcomes[k] = "filtered" => ~ReferenceAccepts(elements[k].cls, variationClassPrefix)

\* a clean prefixed class beside a prefixed "__" class: rejected
RejectedForDoubleUnderscore ==
    /\ scanPc = "done"
    /\ variationClassPrefix = <<"a">>
    /\ Len(elements) = 1
    /\ elements[1].cls = <<"a", " ", "a", "_", "_">>
    /\ outcomes = << "filtered" >>
    /\ variations = << >>

(***************************************************************************)
(* C9. Within one page scan no two Variations of the output share a        *)
(* fingerprint (tag name, raw class string, x and y with a missing box     *)
(* counted as 0): of the elements with one fingerprint only the first      *)
(* accepted one is output.                                                 *)
(***************************************************************************)
UniqueFingerprints ==
    /\ \A a, b \in 1..Len(scanVariations) :
          a # b => Fingerprint(elements[scanVariations[a].index + 1])
                     # Fingerprint(elements[scanVariations[b].index + 1])
    /\ \A j, k \in 1..Len(outcomes) :
          (j < k /\ outcomes[j] = "accepted"
                 /\ Fingerprint(elements[j]) = Fingerprint(elements[k]))
              => outcomes[k] # "accepted"
    /\ scanPc = "done" => variations = scanVariations

\* an element without a box is dropped as the duplicate of one at (0, 0)
DuplicateDropped ==
    /\ scanPc = "done"
    /\ \E j, k \in 1..Len(outcomes) :
          /\ j < k
          /\ outcomes[j] = "accepted"
          /\ outcomes[k] = "duplicate"
          /\ Fingerprint(elements[j]) = Fingerprint(elements[k])
          /\ elements[j].box = Box(0, 0)
          /\ elements[k].box = NoBox
    /\ Len(variations) = 1

(***************************************************************************)
(* C10. findElementVariations returns the accepted elements in enumeration *)
(* order, each Variation.index the position of its element, so the indices *)
(* are strictly increasing; two matching elements with distinct class sets *)
(* and an empty prefix give exactly two Variations with index 0 and 1.     *)
(***************************************************************************)
EnumerationOrder ==
    /\ [k \in 1..Len(scanVariations) |-> scanVariations[k].index]
          = AcceptedPositions(outcomes)
    /\ \A k \in 1..Len(scanVariations) :
          scanVariations[k] = Variation(elements[scanVariations[k].index + 1],
                                        scanVariations[k].index)
    /\ \A a, b \in 1..Len(scanVariations) :
          a < b => scanVariations[a].index < scanVariations[b].index

TwoDistinctElements ==
    /\ Len(elements) = 2
    /\ variationClassPrefix = << >>
    /\ ~elements[1].throws
    /\ ~elements[2].throws
    /\ Range(ClassNames(elements[1].cls)) # Range(ClassNames(elements[2].cls))

TwoVariations ==
    (scanPc = "done" /\ TwoDistinctElements) =>
        /\ Len(variations) = 2
        /\ variations[1].index = 0
        /\ variations[2].index = 1

OrderAndIndex == EnumerationOrder /\ TwoVariations

(***************************************************************************)
(* C11. An extraction error on one candidate skips only that candidate:    *)
(* the scan goes on to its end, every candidate gets its turn, what was    *)
(* accepted stays in the output, and the decision on every other candidate *)
(* is the one the accepted candidates before it and the filter give.       *)
(***************************************************************************)
ErrorSkipsOne ==
    /\ Len(outcomes) = elemIndex
    /\ scanPc = "done" => (Len(outcomes) = Len(elements) /\ variations = scanVariations)
    /\ \A k \in 1..Len(outcomes) :
          /\ outcomes[k] = "error" <=> elements[k].throws
          /\ outcomes[k] = "accepted" <=>
                \E a \in 1..Len(scanVariations) : scanVariations[a].index = k - 1
          /\ ~elements[k].throws =>
                outcomes[k] =
                    IF \E j \in 1..(k - 1) :
                          /\ outcomes[j] = "accepted"
                          /\ ElementId(elements[j]) = ElementId(elements[k])
                    THEN "duplicate"
                    ELSE IF PassesFilter(ClassNames(elements[k].cls), variationClassPrefix)
                         THEN "accepted" ELSE "filtered"

\* a detached element between two accepted ones
AcceptedAroundError ==
    /\ scanPc = "done"
    /\ outcomes = << "accepted", "error", "accepted" >>
    /\ Len(variations) = 2
    /\ variations[1].index = 0
    /\ variations[2].index = 2

(***************************************************************************)
(* C12. Every URL returned by one call of the link discoverer parses to    *)
(* the hostname baseDomain, contains no "#" and no "?", is not in the      *)
(* visited set given to the call, and occurs once in the returned list.    *)
(***************************************************************************)
DiscoveredLinksClean ==
    discoverPc \in {"done", "failed"} =>
        /\ \A k \in 1..Len(filteredLinks) :
              /\ ValidUrl(filteredLinks[k])
              /\ Hostname(filteredLinks[k]) = BaseDomain
              /\ "#" \notin Range(filteredLinks[k])
              /\ "?" \notin Range(filteredLinks[k])
              /\ filteredLinks[k] \notin discoverArgs.visitedUrls
        /\ NoRepeats(filteredLinks)

\* two anchors to one page, one with a query string, while the page with the
\* query string has been visited: the page is returned once, without the query
QueryStrippedOnce ==
    /\ discoverPc = "done"
    /\ anchors = << <<"/", "a">>, <<"/", "a", "?", "q">> >>
    /\ discoverArgs.visitedUrls = { Protocol \o Slashes \o <<"d", "/", "a", "?", "q">> }
    /\ Len(discoveredLinks) = 2
    /\ filteredLinks = << Protocol \o Slashes \o <<"d", "/", "a">> >>

(***************************************************************************)
(* C13. Of the links that are not visited the discoverer returns, in the   *)
(* same relative order, exactly those for which the include list is empty  *)
(* or some include pattern is a substring, and no exclude pattern is a     *)
(* substring; with both lists empty it returns them all.                   *)
(***************************************************************************)
KeptByPatterns(u) ==
    /\ \/ discoverArgs.includePatterns = << >>
       \/ \E i \in 1..Len(discoverArgs.includePatterns) :
              Includes(u, discoverArgs.includePatterns[i])
    /\ \A i \in 1..Len(discoverArgs.excludePatterns) :
          ~Includes(u, discoverArgs.excludePatterns[i])

PatternFilter ==
    discoverPc = "done" =>
        /\ filteredLinks = SelectSeq(candidateLinks, KeptByPatterns)
        /\ (discoverArgs.includePatterns = << >> /\ discoverArgs.excludePatterns = << >>)
              => filteredLinks = candidateLinks

\* a link that an include pattern keeps and an exclude pattern drops, beside one
\* that only the include pattern matches
IncludedThenExcluded ==
    /\ discoverPc = "done"
    /\ discoverArgs.includePatterns = << <<"d", "/">> >>
    /\ discoverArgs.excludePatterns = << <<"b">> >>
    /\ candidateLinks = << Protocol \o Slashes \o <<"d", "/", "b">>,
                           Protocol \o Slashes \o <<"d", "/", "a">> >>
    /\ filteredLinks = << Protocol \o Slashes \o <<"d", "/", "a">> >>

(***************************************************************************)
(* C14. A failure inside link discovery counts as zero discovered links:   *)
(* the step that meets it enqueues nothing, adds nothing to failedUrls,    *)
(* raises no error whatever continueOnError is, keeps the variations       *)
(* collected so far and goes on to the end of the iteration; no entry of   *)
(* failedUrls and no rejection ever comes from link discovery.             *)
(***************************************************************************)
NoDiscoveryFailureRecorded ==
    /\ \A i \in 1..Len(failedUrls) : failedUrls[i].error.kind # "links"
    /\ error.kind # "links"
    /\ Len(failedUrls) = Count("pageError")

DiscoveryFailureStep ==
    Count("discoverError")' > Count("discoverError") =>
        /\ newLinks' = << >>
        /\ urlsToProcess' = urlsToProcess
        /\ enqueued' = enqueued
        /\ failedUrls' = failedUrls
        /\ allVariations' = allVariations
        /\ variations' = variations
        /\ error' = NoError
        /\ pc' = "delay"

DiscoveryFailureAbsorbed == []NoDiscoveryFailureRecorded /\ [][DiscoveryFailureStep]_vars

\* a crawl with continueOnError=false that met a discovery failure on a page with
\* variations and still returned them, with no failed page
ReturnedAfterDiscoveryFailure ==
    /\ pc = "done"
    /\ ~options.continueOnError
    /\ result.state = "resolved"
    /\ result.value.failedUrls = << >>
    /\ \E i \in 1..Len(trace) :
          /\ trace[i].ev = "discoverError"
          /\ \E k \in 1..Len(result.value.variations) :
                result.value.variations[k].pageUrl = trace[i].url

(***************************************************************************)
(* C15. On normal completion stats.totalPages is the length of the seed    *)
(* list the crawl started from (manualUrls cut to maxUrls entries, or what *)
(* the sitemap gave), stats.successfulPages is that length minus the       *)
(* number of failures, and stats.totalVariations is the length of the      *)
(* variations list returned, however many discovered pages were processed. *)
(***************************************************************************)
StatsFromSeeds ==
    result.state \in {"returning", "resolved"} =>
        /\ result.value.stats.totalPages = Len(urls)
        /\ result.value.stats.successfulPages = Len(urls) - Len(failedUrls)
        /\ result.value.stats.totalVariations = Len(result.value.variations)
        /\ result.value.variations = allVariations
        /\ result.value.failedUrls = failedUrls
        /\ result.value.scrapedUrls = urls
        /\ options.useManual => urls = Slice0(options.manualUrls, options.maxUrls)
        /\ Len(enqueued) >= Len(urls) /\ SubSeq(enqueued, 1, Len(urls)) = urls

\* one seed, two pages processed, one of them discovered: totalPages is 1
MorePagesThanSeeds ==
    /\ pc = "done"
    /\ result.state = "resolved"
    /\ Len(urls) = 1
    /\ processedCount = 2
    /\ Count("scan") = 2
    /\ result.value.stats.totalPages = 1
    /\ result.value.stats.totalVariations = 2

(***************************************************************************)
(* C16. takeScreenshots never propagates an error: a pass always runs to   *)
(* its return; a variation whose capture calls all throw, or whose         *)
(* preparation throws, keeps a null screenshotPath, and every variation    *)
(* of the pass gets its turn whatever became of the ones before it.        *)
(***************************************************************************)
CaptureNeverThrows ==
    /\ Len(shotOutcomes) = shotIndex
    /\ shotIndex <= screenshotCount
    /\ capturePc = "done" => Len(shotOutcomes) = screenshotCount
    /\ \A k \in 1..Len(shotOutcomes) :
          /\ shotOutcomes[k] \in {"error", "skipped", "notVisible"} =>
                /\ variations[k].screenshotPath = "null"
                /\ \A a \in 1..Len(attempts) : attempts[a].i = k - 1 => ~attempts[a].ok
          /\ shotOutcomes[k] = "saved" => variations[k].screenshotPath # "null"
          /\ shotOutcomes[k] \in {"saved", "skipped"} =>
                \E a \in 1..Len(attempts) : attempts[a].i = k - 1

\* every tier threw for the first variation, and the second one was captured
CapturedAfterFailure ==
    /\ capturePc = "done"
    /\ screenshotCount = 2
    /\ shotOutcomes = << "error", "saved" >>
    /\ \E a, b, c \in 1..Len(attempts) :
          /\ attempts[a] = [i |-> 0, tier |-> "clip", ok |-> FALSE]
          /\ attempts[b] = [i |-> 0, tier |-> "conservative", ok |-> FALSE]
          /\ attempts[c] = [i |-> 0, tier |-> "element", ok |-> FALSE]
    /\ variations[1].screenshotPath = "null"
    /\ variations[2].screenshotPath # "null"

(***************************************************************************)
(* C17. Dedup state lives for one scan only.  A scan accepts the first     *)
(* element of each fingerprint on its page, whatever was accepted on the   *)
(* pages before; the variations of each page are appended to the crawl's   *)
(* list with the page's URL; so an element with one fingerprint on two     *)
(* pages has two records in the result, one per page.                      *)
(***************************************************************************)
FirstOfItsFingerprint(es, j) ==
    \A h \in 1..(j - 1) : Fingerprint(es[h]) # Fingerprint(es[j])

PageScanStep ==
    (pc = "scan" /\ pc' \in {"screenshots", "links"}) =>
        \A j \in 1..Len(elements') :
            FirstOfItsFingerprint(elements', j) <=>
                \E a \in 1..Len(variations') : variations'[a].index = j - 1

PageCollectStep ==
    (pc = "screenshots" /\ pc' = "links") =>
        /\ Len(allVariations') = Len(allVariations) + Len(variations)
        /\ SubSeq(allVariations', 1, Len(allVariations)) = allVariations
        /\ \A a \in 1..Len(variations) :
              /\ allVariations'[Len(allVariations) + a].pageUrl = url
              /\ allVariations'[Len(allVariations) + a].index = variations[a].index
              /\ allVariations'[Len(allVariations) + a].boundingBox = variations[a].boundingBox
              /\ allVariations'[Len(allVariations) + a].classNames = variations[a].classNames

OneRecordPerPage ==
    \A a, b \in 1..Len(allVariations) :
        (a # b /\ allVariations[a].index = allVariations[b].index)
            => allVariations[a].pageUrl # allVariations[b].pageUrl

DedupPerScan == []OneRecordPerPage /\ [][PageScanStep]_vars /\ [][PageCollectStep]_vars

\* the result of a crawl holds the same element twice, once for each of two pages
SameElementOnTwoPages ==
    /\ pc = "done"
    /\ result.state = "resolved"
    /\ \E a, b \in 1..Len(result.value.variations) :
          /\ a # b
          /\ result.value.variations[a].tagName = result.value.variations[b].tagName
          /\ result.value.variations[a].classNames = result.value.variations[b].classNames
          /\ result.value.variations[a].boundingBox = result.value.variations[b].boundingBox
          /\ result.value.variations[a].pageUrl # result.value.variations[b].pageUrl

(***************************************************************************)
(* C18. Scanning the same unmodified DOM again with the same selector and  *)
(* prefix, when the first scan has left its keys behind, yields the same   *)
(* set of fingerprints as the first scan; and in whatever order the        *)
(* candidates are enumerated, the output of a scan has no fingerprint      *)
(* twice.                                                                  *)
(***************************************************************************)
FingerprintsOf(es, vs) == { Fingerprint(es[vs[a].index + 1]) : a \in 1..Len(vs) }

DistinctFingerprints(es, vs) ==
    \A a, b \in 1..Len(vs) :
        a # b => Fingerprint(es[vs[a].index + 1]) # Fingerprint(es[vs[b].index + 1])

Orderings(es) ==
    { [k \in 1..Len(es) |-> es[f[k]]] :
        f \in { g \in [1..Len(es) -> 1..Len(es)] :
                    \A h, k \in 1..Len(es) : h # k => g[h] # g[k] } }

RescanIdempotent ==
    scanPc = "done" =>
        /\ variations = FindElementVariations(elements, variationClassPrefix, {})
        /\ FingerprintsOf(elements,
                          FindElementVariations(elements, variationClassPrefix,
                                                processedElements))
              = FingerprintsOf(elements, variations)
        /\ \A es \in Orderings(elements) :
              DistinctFingerprints(es, FindElementVariations(es, variationClassPrefix,
                                                             processedElements))

\* a scan that dropped a duplicate between two accepted elements and left two keys
ScannedWithKeysLeft ==
    /\ scanPc = "done"
    /\ outcomes = << "accepted", "duplicate", "accepted" >>
    /\ Cardinality(processedElements) = 2
    /\ Len(variations) = 2

(***************************************************************************)
(* C19. Dequeuing a URL that is already visited changes neither            *)
(* processedCount nor the visited set (nor anything but the queue), and    *)
(* processedCount equals the number of distinct URLs in the visited set,   *)
(* at every loop iteration boundary as in every other state.               *)
(***************************************************************************)
CountIsVisited == processedCount = Cardinality(visitedUrls)

DequeueStep ==
    (pc = "loop" /\ urlsToProcess # << >> /\ urlsToProcess' = Tail(urlsToProcess)) =>
        IF Head(urlsToProcess) \in visitedUrls
        THEN /\ processedCount' = processedCount
             /\ visitedUrls' = visitedUrls
             /\ pc' = "loop"
             /\ trace' = trace
             /\ allVariations' = allVariations
        ELSE /\ processedCount' = processedCount + 1
             /\ visitedUrls' = visitedUrls \cup { Head(urlsToProcess) }
             /\ Head(urlsToProcess) \notin visitedUrls

SkipNotCounted == []CountIsVisited /\ [][DequeueStep]_vars

\* three URLs were dequeued, one of them a second time: two pages counted
DequeuedThreeCountedTwo ==
    /\ pc = "done"
    /\ result.state = "resolved"
    /\ urlsToProcess = << >>
    /\ DequeuedCount = 3
    /\ processedCount = 2
    /\ Cardinality(visitedUrls) = 2

(***************************************************************************)
(* C20. When link discovery runs, remainingSlots = maxUrls -               *)
(* processedCount - queue.length is not negative and the links enqueued    *)
(* are the first min(remainingSlots, number discovered) links in discovery *)
(* order, appended behind every URL already waiting in the queue.          *)
(***************************************************************************)
SlotsStep ==
    Count("discover")' > Count("discover") =>
        LET remainingSlots == options.maxUrls - processedCount - Len(urlsToProcess)
            added == SubSeq(urlsToProcess', Len(urlsToProcess) + 1, Len(urlsToProcess'))
        IN  /\ remainingSlots >= 0
            /\ Len(urlsToProcess') >= Len(urlsToProcess)
            /\ SubSeq(urlsToProcess', 1, Len(urlsToProcess)) = urlsToProcess
            /\ Len(added) = IF Len(newLinks') < remainingSlots
                            THEN Len(newLinks') ELSE remainingSlots
            /\ added = SubSeq(newLinks', 1, Len(added))

SlotsBoundEnqueue == [][SlotsStep]_vars

\* two links were discovered while one URL was waiting and one slot was left:
\* the first link stands behind the waiting URL, the second was dropped
SecondLinkDropped ==
    /\ pc = "delay"
    /\ Len(newLinks) = 2
    /\ Len(urlsToProcess) = 2
    /\ urlsToProcess[2] = newLinks[1]
    /\ urlsToProcess[1] \notin Range(newLinks)
    /\ processedCount + Len(urlsToProcess) = options.maxUrls

(***************************************************************************)
(* C21. In every state of the crawl loop processedCount + queue.length <=  *)
(* maxUrls: remainingSlots is not negative wherever links are enqueued.    *)
(***************************************************************************)
RemainingSlots == options.maxUrls - processedCount - Len(urlsToProcess)

SlotsNeverNegative == Crawling => RemainingSlots >= 0

\* links were discovered on a page while no slot was left: none was enqueued
DiscoveredWithNoSlot ==
    /\ pc = "delay"
    /\ Len(newLinks) > 0
    /\ RemainingSlots = 0
    /\ Len(enqueued) = Len(urls)
    /\ Len(urlsToProcess) > 0

(***************************************************************************)
(* C22. After a page has been processed the controller suspends for        *)
(* delayBetweenPages exactly when delayBetweenPages > 0 and more pages     *)
(* remain to process, that is the queue holds a URL that is not visited    *)
(* and the cap is not reached; it does not suspend after the last page.    *)
(***************************************************************************)
MorePagesRemain ==
    /\ processedCount < options.maxUrls
    /\ \E i \in 1..Len(urlsToProcess) : urlsToProcess[i] \notin visitedUrls

SuspendStep ==
    pc = "delay" =>
        (Count("delay")' > Count("delay")
            <=> (options.delayBetweenPages > 0 /\ MorePagesRemain))

SuspendsIffMoreRemain == [][SuspendStep]_vars

(***************************************************************************)
(* C23. The steps of a page occur in the order navigate, scan, capture,    *)
(* discover, delay, each at most once and none before the page's navigate  *)
(* and scan; every step of a page comes before every step of the next      *)
(* page; the report is generated only when the loop has ended, and no step *)
(* of a page follows it.                                                   *)
(***************************************************************************)
PageSteps == << "navigate", "scan", "capture", "discover", "delay" >>

IsPageStep(e) == e.ev \in Range(PageSteps)

StepRank(e) == CHOOSE r \in 1..Len(PageSteps) : PageSteps[r] = e.ev

StepsInOrder ==
    \A i, j \in 1..Len(trace) :
        (i < j /\ IsPageStep(trace[i]) /\ IsPageStep(trace[j])) =>
            \/ trace[i].n < trace[j].n
            \/ /\ trace[i].n = trace[j].n
               /\ trace[i].url = trace[j].url
               /\ StepRank(trace[i]) < StepRank(trace[j])

StepsAfterScan ==
    \A j \in 1..Len(trace) :
        /\ trace[j].ev \in {"scan", "capture", "discover", "delay"} =>
              \E i \in 1..(j - 1) : trace[i].ev = "navigate" /\ trace[i].n = trace[j].n
        /\ trace[j].ev \in {"capture", "discover", "delay"} =>
              \E i \in 1..(j - 1) : trace[i].ev = "scan" /\ trace[i].n = trace[j].n

ReportLast ==
    \A i, j \in 1..Len(trace) :
        (i < j /\ trace[i].ev = "report") => trace[j].ev = "close"

ReportStep == Count("report")' > Count("report") => ~LoopGuard

PageStepOrder ==
    /\ [](StepsInOrder /\ StepsAfterScan /\ ReportLast)
    /\ [][ReportStep]_vars

\* a page went through all five steps, another page was navigated after it, and
\* the report was generated
FiveStepsThenNextPage ==
    /\ pc = "done"
    /\ Count("report") = 1
    /\ \E n \in 1..processedCount :
          /\ \A r \in 1..Len(PageSteps) :
                \E i \in 1..Len(trace) : trace[i].ev = PageSteps[r] /\ trace[i].n = n
          /\ \E i \in 1..Len(trace) : trace[i].ev = "navigate" /\ trace[i].n = n + 1

(***************************************************************************)
(* C24. Every Variation of the crawl result carries the URL of the page it *)
(* was scanned on as pageUrl, the value processedCount had for that page   *)
(* as pageIndex, and its position in the global list as globalIndex: the   *)
(* globalIndex values are 0, 1, 2, ... without gaps or repeats.            *)
(***************************************************************************)
TaggedWithPage(list) ==
    \A g \in 1..Len(list) :
        /\ list[g].globalIndex = g - 1
        /\ list[g].pageIndex \in 1..Count("navigate")
        /\ list[g].pageUrl = Navigated[list[g].pageIndex]
        /\ \E e \in Range(EventsOf("scan")) :
              e.n = list[g].pageIndex /\ e.url = list[g].pageUrl

VariationsTagged ==
    /\ TaggedWithPage(allVariations)
    /\ result.state \in {"returning", "resolved"} =>
          /\ result.value.variations = allVariations
          /\ result.value.stats.totalVariations = Len(allVariations)

\* the result holds variations of two pages, the second page not the first
\* one processed
TaggedFromTwoPages ==
    /\ result.state = "resolved"
    /\ Len(result.value.variations) = 2
    /\ result.value.variations[1].pageIndex = 2
    /\ result.value.variations[2].pageIndex = 3
    /\ result.value.variations[2].globalIndex = 1

Tiers == << "clip", "conservative", "content", "element" >>

TierRank(tier) == CHOOSE r \in 1..Len(Tiers) : Tiers[r] = tier

AttemptsFor(i) == SelectSeq(attempts, LAMBDA a : a.i = i)

TierStep ==
    Len(attempts') > Len(attempts) =>
        LET a == attempts'[Len(attempts')]
            before == AttemptsFor(shotIndex)
        IN  /\ attempts' = Append(attempts, a)
            /\ a.i = shotIndex
            /\ a.tier \in Range(Tiers)
            /\ \A k \in 1..Len(before) :
                  /\ ~before[k].ok
                  /\ TierRank(before[k].tier) <= TierRank(a.tier)
            /\ a.tier = "clip" => before = << >>
            /\ a.tier = "conservative" =>
                  /\ tall
                  /\ before = << [i |-> shotIndex, tier |-> "clip", ok |-> FALSE] >>
            /\ a.tier = "content" =>
                  /\ Len(before) = 2
                  /\ before[2] = [i |-> shotIndex, tier |-> "conservative", ok |-> FALSE]

TierOrder == [][TierStep]_vars

\* every tier was tried for the first variation and the last one saved the capture
AllFourTiersTried ==
    /\ Len(AttemptsFor(0)) = 4
    /\ [k \in 1..4 |-> AttemptsFor(0)[k].tier] = Tiers
    /\ AttemptsFor(0)[4].ok
    /\ Len(shotOutcomes) > 0
    /\ shotOutcomes[1] = "saved"

(***************************************************************************)
(* C27. A variation's screenshotPath is non-null only if a capture call    *)
(* for it completed without error, and is then the name of its file; when  *)
(* the element is not visible (no capture call is made) or every capture   *)
(* call made for it throws, screenshotPath stays null.                     *)
(***************************************************************************)
PathOnlyAfterCapture ==
    \A k \in 1..Len(variations) :
        /\ variations[k].screenshotPath # "null" =>
              /\ \E a \in 1..Len(attempts) : attempts[a].i = k - 1 /\ attempts[a].ok
              /\ variations[k].screenshotPath = ScreenshotName(k - 1)
        /\ (k <= Len(shotOutcomes) /\ shotOutcomes[k] = "notVisible") =>
              /\ AttemptsFor(k - 1) = << >>
              /\ variations[k].screenshotPath = "null"
        /\ (k <= Len(shotOutcomes)
               /\ \A a \in 1..Len(attempts) : attempts[a].i = k - 1 => ~attempts[a].ok) =>
              variations[k].screenshotPath = "null"

\* a pass in which one variation was not visible, one had every capture call
\* throw, and one was saved
NullWhereNothingSaved ==
    /\ capturePc = "done"
    /\ \E j, k, s \in 1..Len(variations) :
          /\ shotOutcomes[j] = "notVisible"
          /\ variations[j].screenshotPath = "null"
          /\ shotOutcomes[k] = "error"
          /\ Len(AttemptsFor(k - 1)) >= 2
          /\ variations[k].screenshotPath = "null"
          /\ shotOutcomes[s] = "saved"
          /\ variations[s].screenshotPath # "null"

(***************************************************************************)
(* C28, as stated. With a non-empty prefix no element that has a class     *)
(* containing "__" is accepted.                                            *)
(***************************************************************************)
HasDoubleUnderscore(raw) == \E t \in ClassTokens(raw) : Includes(t, <<"_", "_">>)

AnyDoubleUnderscoreRejected ==
    \A k \in 1..Len(outcomes) :
        (variationClassPrefix # << >> /\ HasDoubleUnderscore(elements[k].cls)) =>
            outcomes[k] # "accepted"

(***************************************************************************)
(* C28, amended. With a non-empty prefix an element that has a class       *)
(* containing both the prefix and "__" is rejected by the filter, also     *)
(* when another of its classes contains the prefix and no "__".            *)
(***************************************************************************)
HasPrefixedDoubleUnderscore(raw, prefix) ==
    \E t \in ClassTokens(raw) : Includes(t, prefix) /\ Includes(t, <<"_", "_">>)

PrefixedDoubleUnderscoreRejected ==
    \A k \in 1..Len(outcomes) :
        (variationClassPrefix # << >>
            /\ HasPrefixedDoubleUnderscore(elements[k].cls, variationClassPrefix)) =>
            outcomes[k] = "filtered"

\* a prefixed "__" class in front of a clean prefixed class: rejected
BlockedBesideCleanClass ==
    /\ scanPc = "done"
    /\ variationClassPrefix = <<"a">>
    /\ Len(elements) = 1
    /\ elements[1].cls = <<"a", "_", "_", " ", "a">>
    /\ outcomes = << "filtered" >>

(***************************************************************************)
(* C29. A key is added to processedElements only in the step that accepts  *)
(* its element: a filtered, duplicate or failing element leaves the set as *)
(* it is, so at every point of a scan the set holds exactly the keys of    *)
(* the Variations output so far, one for each.                             *)
(***************************************************************************)
OutputKeys == { ElementId(elements[scanVariations[k].index + 1]) :
                  k \in 1..Len(scanVariations) }

KeysAreOutput ==
    scanPc # "idle" =>
        /\ processedElements = OutputKeys
        /\ Cardinality(processedElements) = Len(scanVariations)

KeyStep ==
    (scanPc = "loop" /\ Len(outcomes') > Len(outcomes)) =>
        IF outcomes'[Len(outcomes')] = "accepted"
        THEN /\ ElementId(Element) \notin processedElements
             /\ processedElements' = processedElements \cup { ElementId(Element) }
        ELSE processedElements' = processedElements

KeysOnlyWhenAccepted == []KeysAreOutput /\ [][KeyStep]_vars

\* a scan that filtered one element, accepted one and skipped its duplicate
OneKeyAfterThreeElements ==
    /\ scanPc = "done"
    /\ outcomes = << "filtered", "accepted", "duplicate" >>
    /\ Cardinality(processedElements) = 1

(***************************************************************************)
(* C30, as stated. A crawl with followLinks = true in which no page failed *)
(* and at least maxDepth pages were processed has run link discovery after *)
(* maxDepth of them.                                                       *)
(***************************************************************************)
NoPageFailed == Count("pageError") = 0

DiscoveryRoundsAreMaxDepth ==
    (pc = "done" /\ result.state = "resolved" /\ options.followLinks /\ NoPageFailed
        /\ processedCount >= options.maxDepth) =>
        Count("discover") = options.maxDepth

(***************************************************************************)
(* C30, amended. With followLinks = true and no page failing, link         *)
(* discovery runs after each of the first maxDepth - 1 processed pages and *)
(* after no other: a crawl that processes at least maxDepth - 1 pages runs *)
(* it maxDepth - 1 times.                                                  *)
(***************************************************************************)
\* the pages whose link step is behind them
PagesPastLinks ==
    IF pc \in {"navigate", "scan", "screenshots", "links"}
    THEN processedCount - 1 ELSE processedCount

DiscoveryRounds ==
    (Crawling /\ options.followLinks /\ NoPageFailed) =>
        /\ Count("discover") = IF PagesPastLinks < options.maxDepth - 1
                               THEN PagesPastLinks ELSE options.maxDepth - 1
        /\ \A i \in 1..Count("discover") : EventsOf("discover")[i].n = i

\* maxDepth = 3 and three pages processed without failure: discovery ran twice
TwoRoundsForDepthThree ==
    /\ pc = "done"
    /\ result.state = "resolved"
    /\ options.followLinks
    /\ NoPageFailed
    /\ options.maxDepth = 3
    /\ processedCount = 3
    /\ Count("discover") = 2

(***************************************************************************)
(* C31. A page that ends in failedUrls leaves allVariations and the queue  *)
(* as they were: no Variation carries the URL of a failed page, no capture *)
(* or link discovery was run for it and nothing was enqueued when it       *)
(* failed; its URL stays visited and is navigated exactly once.            *)
(***************************************************************************)
FailedPageLeftNothing ==
    \A i \in 1..Len(failedUrls) :
        LET u == failedUrls[i].url
        IN  /\ u \in visitedUrls
            /\ \A g \in 1..Len(allVariations) : allVariations[g].pageUrl # u
            /\ \A j \in 1..Len(trace) :
                  trace[j].url = u => trace[j].ev \notin {"capture", "discover", "delay"}
            /\ Len(SelectSeq(Navigated, LAMBDA v : v = u)) = 1
            /\ result.state = "resolved" =>
                  \A g \in 1..Len(result.value.variations) :
                      result.value.variations[g].pageUrl # u

FailedPageStep ==
    Len(failedUrls') > Len(failedUrls) =>
        /\ allVariations' = allVariations
        /\ urlsToProcess' = urlsToProcess
        /\ enqueued' = enqueued
        /\ visitedUrls' = visitedUrls
        /\ failedUrls'[Len(failedUrls')].url \in visitedUrls

FailedPageFrame == []FailedPageLeftNothing /\ [][FailedPageStep]_vars

\* a crawl resolved with a failed page between two pages that gave variations
FailedBetweenTwoScanned ==
    /\ pc = "done"
    /\ result.state = "resolved"
    /\ Len(failedUrls) = 1
    /\ Len(allVariations) = 2
    /\ allVariations[1].pageIndex = 1
    /\ allVariations[2].pageIndex = 3
    /\ Count("discover") > 0

(***************************************************************************)
(* C32. In every crawl result stats.successfulPages is not negative and    *)
(* not more than the number of pages that were processed without error.    *)
(***************************************************************************)
ProcessedWithoutError == processedCount - Len(failedUrls)

SuccessfulPagesSound ==
    result.state \in {"returning", "resolved"} =>
        /\ result.value.stats.successfulPages >= 0
        /\ result.value.stats.successfulPages <= ProcessedWithoutError

(***************************************************************************)
(* C33. Provided every awaited collaborator call returns or throws, every  *)
(* crawl terminates, whatever links the pages hold: the loop is left only  *)
(* with the queue empty, with processedCount at maxUrls, or by an error    *)
(* thrown out of the page's catch.                                         *)
(***************************************************************************)
LoopLeftForCause ==
    pc \in {"report", "finally", "done"} =>
        \/ ~Crawling
        \/ urlsToProcess = << >>
        \/ processedCount >= options.maxUrls
        \/ error.kind \in {"noUrls", "sitemap", "initialize", "navigate", "scan"}

CrawlTerminates == <>(pc = "done") /\ []LoopLeftForCause

\* a crawl that came to its end after following links back to URLs it had
\* already queued
TerminatedAfterRepeatedLinks ==
    /\ pc = "done"
    /\ result.state = "resolved"
    /\ urlsToProcess = << >>
    /\ Count("discover") >= 2
    /\ Len(enqueued) > processedCount

(***************************************************************************)
(* C34. In one screenshot pass each capture tier, element capture          *)
(* included, is attempted at most once for each variation.                 *)
(***************************************************************************)
TierAttempts(i, tier) == SelectSeq(attempts, LAMBDA a : a.i = i /\ a.tier = tier)

EachTierOnce ==
    \A i \in 0..(Len(variations) - 1) :
        \A r \in 1..Len(Tiers) : Len(TierAttempts(i, Tiers[r])) <= 1

(***************************************************************************)
(* Several calls on one ElementScraper (src/src/scraper.js:987-1012 and    *)
(* publish-timbertech.yml:1485-1660).                                      *)
(*                                                                         *)
(* The caller awaits a call and then makes the next one on the same        *)
(* instance: the fields (this.browser among them) are kept, the locals of  *)
(* the call are new.  The crawls of such a sequence are short ones: one    *)
(* seed at most, no link following, no delay.                              *)
(***************************************************************************)
ShortCrawl(o) ==
    /\ o.maxUrls = 1
    /\ o.maxDepth = 1
    /\ ~o.followLinks
    /\ o.delayBetweenPages = 0
    /\ o.includePatterns = << >>
    /\ o.excludePatterns = << >>
    /\ o.manualUrls \in { << >>, << <<"a">> >> }

\* the promise has settled and the caller makes another call
NextCall ==
    /\ pc = "done"
    /\ Count("settled") < MaxCalls - 1
    /\ trace' = Append(trace, Event("settled", << >>))
    /\ pc' = "idle"
    /\ error' = NoError
    /\ result' = [state |-> "pending"]
    /\ UNCHANGED << scanVars, linkVars, captureVars, sitemapUrls, enqueued, browser, variations, currentUrl, options, urls,
                    allVariations, failedUrls, visitedUrls, urlsToProcess,
                    processedCount, url, newLinks >>

\* scrape(url, selector, prefix): this.currentUrl = url, then initialize()
scrape_Call ==
    /\ pc = "idle"
    /\ currentUrl' = <<"a">>
    /\ pc' = "scrapeInitialize"
    /\ UNCHANGED << scanVars, linkVars, captureVars, sitemapUrls, enqueued, browser, variations, options, urls, allVariations,
                    failedUrls, visitedUrls, urlsToProcess, processedCount, url,
                    newLinks, error, result, trace >>

scrape_initialize_Ok ==
    /\ pc = "scrapeInitialize"
    /\ browser' = "open"
    /\ trace' = Append(trace, Event("launch", << >>))
    /\ pc' = "scrapePage"
    /\ UNCHANGED << scanVars, linkVars, captureVars, sitemapUrls, enqueued, variations, currentUrl, options, urls, allVariations,
                    failedUrls, visitedUrls, urlsToProcess, processedCount, url,
                    newLinks, error, result >>

\* fs.ensureDir or chromium.launch throws: this.browser keeps what it held
scrape_initialize_FailBeforeLaunch ==
    /\ pc = "scrapeInitialize"
    /\ Throw([kind |-> "initialize", url |-> << >>])
    /\ UNCHANGED << scanVars, linkVars, captureVars, sitemapUrls, enqueued, browser, variations, currentUrl, options, urls, allVariations,
                    failedUrls, visitedUrls, urlsToProcess, processedCount, url,
                    newLinks, result, trace >>

\* navigateToPage, findElementVariations, takeScreenshots and generateReport resolve
scrape_Ok ==
    /\ pc = "scrapePage"
    /\ trace' = trace \o << Event("navigate", currentUrl), Event("scan", currentUrl) >>
    /\ \E k \in 0..MaxVarsPerPage :
        /\ variations' = FindElementVariations(CrawlPage(k), << >>, {})
        /\ result' = [state |-> "returning", value |-> [variations |-> variations']]
    /\ pc' = "finally"
    /\ UNCHANGED << scanVars, linkVars, captureVars, sitemapUrls, enqueued, browser, currentUrl, options, urls, allVariations,
                    failedUrls, visitedUrls, urlsToProcess, processedCount, url,
                    newLinks, error >>

\* one of them throws
scrape_Fail ==
    /\ pc = "scrapePage"
    /\ trace' = Append(trace, Event("navigate", currentUrl))
    /\ Throw([kind |-> "scrape", url |-> currentUrl])
    /\ UNCHANGED << scanVars, linkVars, captureVars, sitemapUrls, enqueued, browser, variations, currentUrl, options, urls, allVariations,
                    failedUrls, visitedUrls, urlsToProcess, processedCount, url,
                    newLinks, result >>

NextCalls ==
    \/ scrapeSitemap_Manual /\ ShortCrawl(options')
    \/ scrapeSitemap_Sitemap /\ ShortCrawl(options')
    \/ fetchSitemapUrls_Ok
    \/ fetchSitemapUrls_Fail
    \/ initialize_Ok
    \/ initialize_FailBeforeLaunch
    \/ initialize_FailAfterLaunch
    \/ Dequeue
    \/ navigateToPage_Ok
    \/ navigateToPage_Fail
    \/ findElementVariations_Ok
    \/ findElementVariations_Fail
    \/ takeScreenshots
    \/ SkipDiscovery
    \/ NoDelay
    \/ ExitLoop
    \/ generateSitemapReport_Ok
    \/ generateSitemapReport_Fail
    \/ Finally
    \/ scrape_Call
    \/ scrape_initialize_Ok
    \/ scrape_initialize_FailBeforeLaunch
    \/ scrape_Ok
    \/ scrape_Fail
    \/ NextCall

(***************************************************************************)
(* C35. Over any sequence of scrape and scrapeSitemap calls on one         *)
(* instance every close() is called on a browser that was launched and is  *)
(* not yet closed, and when a call has settled every browser launched so   *)
(* far has been closed: once each.                                         *)
(***************************************************************************)
BrowserEvents == SelectSeq(trace, LAMBDA e : e.ev \in {"launch", "close"})

CloseOncePerLaunch ==
    /\ \A j \in 1..Len(BrowserEvents) :
          BrowserEvents[j].ev = "close" =>
              (j > 1 /\ BrowserEvents[j - 1].ev = "launch")
    /\ pc = "done" => Count("close") = Count("launch")

(***************************************************************************)
(* C36. A scan returns the same Variations whether the duplicate check     *)
(* comes before the class-prefix filter, as in the code, or after it: at   *)
(* every point the output is that of a scan that filters first, checks the *)
(* key second and marks only the elements it accepts.                      *)
(***************************************************************************)
RECURSIVE FilterFirstScan(_, _, _, _, _)
FilterFirstScan(es, prefix, i, processed, out) ==
    IF i >= Len(es) THEN out
    ELSE LET e == es[i + 1]
         IN  IF e.throws
             THEN FilterFirstScan(es, prefix, i + 1, processed, out)
             ELSE IF ~PassesFilter(ClassNames(e.cls), prefix)
             THEN FilterFirstScan(es, prefix, i + 1, processed, out)
             ELSE IF ElementId(e) \in processed
             THEN FilterFirstScan(es, prefix, i + 1, processed, out)
             ELSE FilterFirstScan(es, prefix, i + 1, processed \cup { ElementId(e) },
                                  Append(out, Variation(e, i)))

FilterOrderIrrelevant ==
    /\ scanPc # "idle" =>
          scanVariations = FilterFirstScan(SubSeq(elements, 1, elemIndex),
                                           variationClassPrefix, 0, {}, << >>)
    /\ scanPc = "done" =>
          variations = FilterFirstScan(elements, variationClassPrefix, 0, {}, << >>)

\* an element the filter would reject was skipped as a duplicate of an accepted one
DuplicateThatFilterRejects ==
    /\ scanPc = "done"
    /\ Len(variations) > 0
    /\ \E k \in 1..Len(outcomes) :
          /\ outcomes[k] = "duplicate"
          /\ ~PassesFilter(ClassNames(elements[k].cls), variationClassPrefix)

(***************************************************************************)
(* C37, as stated. At every point of a crawl the queue holds no URL twice  *)
(* and no URL that is already visited.                                     *)
(***************************************************************************)
QueueCleanAlways ==
    Crawling =>
        /\ NoRepeats(urlsToProcess)
        /\ \A i \in 1..Len(urlsToProcess) : urlsToProcess[i] \notin visitedUrls

(***************************************************************************)
(* C37, amended. Every link that joins the queue is unvisited at that      *)
(* moment and the links enqueued from one page are pairwise distinct; the  *)
(* queue holds only URLs that were enqueued, in enqueue order.  It may     *)
(* hold a URL twice, and so a visited URL once the first copy has been     *)
(* processed: that copy is skipped when it is dequeued.                    *)
(***************************************************************************)
LinksEnqueuedStep ==
    (pc = "links" /\ Len(enqueued') > Len(enqueued)) =>
        LET added == SubSeq(enqueued', Len(enqueued) + 1, Len(enqueued'))
        IN  /\ NoRepeats(added)
            /\ \A i \in 1..Len(added) : added[i] \notin visitedUrls
            /\ visitedUrls' = visitedUrls

QueueOfEnqueued ==
    Crawling =>
        urlsToProcess = SubSeq(enqueued, DequeuedCount + 1, Len(enqueued))

EnqueuedUnvisited == []QueueOfEnqueued /\ [][LinksEnqueuedStep]_vars

\* a link to a page that is already waiting was enqueued: the queue holds it twice
LinkQueuedTwice ==
    /\ pc = "delay"
    /\ NoRepeats(urls)
    /\ Len(newLinks) > 0
    /\ Len(urlsToProcess) = 2
    /\ urlsToProcess[1] = urlsToProcess[2]

(***************************************************************************)
(* C38. fetchSitemapUrls returns the first maxUrls URLs of the sitemap,    *)
(* in sitemap order, among those that contain an include pattern (when the *)
(* include list is not empty) and contain no exclude pattern: at most      *)
(* maxUrls URLs, the limit applied to what the two filters keep.           *)
(***************************************************************************)
\* fetchSitemapUrls has just returned to scrapeSitemap
FetchReturned ==
    /\ ~options.useManual
    /\ \/ pc = "initialize"
       \/ pc = "finally" /\ error.kind = "noUrls"

\* the URL passes both filters
KeptUrl(u) ==
    /\ Len(options.includePatterns) > 0 =>
           \E p \in 1..Len(options.includePatterns) : Includes(u, options.includePatterns[p])
    /\ \A p \in 1..Len(options.excludePatterns) : ~Includes(u, options.excludePatterns[p])

\* the positions of the sitemap whose URL passes both filters
KeptPositions == { i \in 1..Len(sitemapUrls) : KeptUrl(sitemapUrls[i]) }

\* the k-th of them
NthKept(k) ==
    CHOOSE i \in KeptPositions : Cardinality({ j \in KeptPositions : j <= i }) = k

SitemapSeedsFilteredThenCut ==
    FetchReturned =>
        /\ Len(urls) <= options.maxUrls
        /\ Len(urls) = IF Cardinality(KeptPositions) < options.maxUrls
                       THEN Cardinality(KeptPositions) ELSE options.maxUrls
        /\ \A k \in 1..Len(urls) :
              /\ urls[k] = sitemapUrls[NthKept(k)]
              /\ KeptUrl(urls[k])

\* the first URL of the sitemap is filtered out and the limit of one is met by the second
SecondUrlWithinLimit ==
    /\ FetchReturned
    /\ options.maxUrls = 1
    /\ Len(sitemapUrls) = 2
    /\ ~KeptUrl(sitemapUrls[1])
    /\ urls = << sitemapUrls[2] >>

(***************************************************************************)
(* C39. The direct clipped capture is attempted only with a clip region    *)
(* of width > 10, height > 10, x >= 0, y >= 0 and x + width no more than   *)
(* the viewport width; the region computed from any bounding box of        *)
(* positive width and height has x + width within the viewport width; and  *)
(* a region that fails the width test sends the variation straight to the  *)
(* raw element capture, which is then the first capture call made for it.  *)
(***************************************************************************)
\* a clip region has been computed for the variation being captured
RegionComputed ==
    /\ capturePc \notin { "idle", "visible", "done" }
    /\ BoxValid(finalBoundingBox)

RegionWithinViewport ==
    RegionComputed =>
        /\ clipRegion # NullRegion
        /\ clipRegion.x >= 0
        /\ clipRegion.y >= 0
        /\ clipRegion.x + clipRegion.width <= ViewportWidth

ClipAttemptStep ==
    (Len(attempts') > Len(attempts) /\ attempts'[Len(attempts')].tier = "clip") =>
        /\ RegionComputed
        /\ clipRegion.width > 10
        /\ clipRegion.height > 10
        /\ clipRegion.x >= 0
        /\ clipRegion.y >= 0
        /\ clipRegion.x + clipRegion.width <= ViewportWidth

NarrowRegionStep ==
    /\ (capturePc = "visible" /\ capturePc' \notin { "visible", "done" }
            /\ BoxValid(finalBoundingBox') /\ clipRegion'.width <= 10) =>
           capturePc' = "fallback"
    /\ (capturePc = "fallback" /\ capturePc' # "fallback") =>
           /\ AttemptsFor(shotIndex) = << >>
           /\ attempts' = Append(attempts, attempts'[Len(attempts')])
           /\ attempts'[Len(attempts')].tier = "element"
           /\ attempts'[Len(attempts')].i = shotIndex

ClipOnlyWithinViewport ==
    []RegionWithinViewport /\ [][ClipAttemptStep /\ NarrowRegionStep]_vars

\* the first variation was captured by the direct clip; the box of the second
\* lies beyond the right edge, its region is 4px wide and the element capture
\* was the only call made for it
NarrowRegionCapturedRaw ==
    /\ shotIndex = 2
    /\ Len(attempts) = 2
    /\ attempts[1] = [i |-> 0, tier |-> "clip", ok |-> TRUE]
    /\ attempts[2] = [i |-> 1, tier |-> "element", ok |-> TRUE]
    /\ BoxValid(finalBoundingBox)
    /\ clipRegion.width <= 10
    /\ clipRegion.x + clipRegion.width = ViewportWidth

(***************************************************************************)
(* C40. A crawl whose seed list is empty (an empty manualUrls array, or a  *)
(* sitemap of which the filters and the maxUrls cut leave nothing) rejects *)
(* with the "no URLs" error before initialize(): no browser is launched,   *)
(* no page is navigated and no report is written.                          *)
(***************************************************************************)
\* the seed list has been computed and is empty
EmptySeedList ==
    /\ pc \notin { "idle", "fetch" }
    /\ error.kind # "sitemap"
    /\ Len(urls) = 0

EmptySeedsRejectBeforeLaunch ==
    EmptySeedList =>
        /\ pc \in { "finally", "done" }
        /\ error.kind = "noUrls"
        /\ browser = "null"
        /\ Count("launch") = 0
        /\ Count("navigate") = 0
        /\ Count("report") = 0
        /\ trace = << >>
        /\ pc = "done" => (result.state = "rejected" /\ result.error.kind = "noUrls")

\* the sitemap held two URLs, the filters kept none, and the call was rejected
RejectedAfterFiltering ==
    /\ pc = "done"
    /\ ~options.useManual
    /\ Len(sitemapUrls) = 2
    /\ Len(urls) = 0
    /\ result.state = "rejected"

\* a constructed ElementScraper, no call made yet
Init == InitCrawl /\ InitScan /\ InitLinks /\ InitCapture

Next ==
    \/ scrapeSitemap_Manual
    \/ scrapeSitemap_Sitemap
    \/ fetchSitemapUrls_Ok
    \/ fetchSitemapUrls_Fail
    \/ initialize_Ok
    \/ initialize_FailBeforeLaunch
    \/ initialize_FailAfterLaunch
    \/ SkipVisited
    \/ Dequeue
    \/ navigateToPage_Ok
    \/ navigateToPage_Fail
    \/ findElementVariations_Ok
    \/ findElementVariations_Fail
    \/ takeScreenshots
    \/ discoverSameDomainLinks_Ok
    \/ discoverSameDomainLinks_Fail
    \/ SkipDiscovery
    \/ Delay
    \/ NoDelay
    \/ ExitLoop
    \/ generateSitemapReport_Ok
    \/ generateSitemapReport_Fail
    \/ Finally

Spec == Init /\ [][Next]_vars

\* every awaited call settles and the function goes on from it
SpecLive == Init /\ [][Next]_vars /\ WF_vars(Next)

SpecCalls == Init /\ [][NextCalls]_vars

SpecScan == Init /\ [][NextScan]_vars

SpecLinks == Init /\ [][NextLinks]_vars

SpecCapture == Init /\ [][NextCapture]_vars
====
